---------------------------- MODULE Spec2Model ----------------------------
(***************************************************************************)
(* Model of gemini-watermark-remover's core:                               *)
(*   core/blend.py      detect_gemini_watermark, remove_watermark          *)
(*   processors/video.py remove_veo_watermark                              *)
(*   core/temporal.py   TemporalProcessor and its helpers                  *)
(*   core/position.py   the two position calculators                       *)
(*   core/alpha_map.py  load_alpha_map, get_alpha_map and its cache        *)
(*                                                                         *)
(* Real arithmetic of the code (float32) is modelled exactly with          *)
(* rationals: an opacity is the byte n of the reference image, standing    *)
(* for n/255 (load_alpha_map), a brightness is the channel sum r+g+b,      *)
(* standing for (r+g+b)/3, and every comparison is cross-multiplied.       *)
(* astype(np.uint8) of a clipped non-negative value is the floor.          *)
(***************************************************************************)
EXTENDS Integers, Sequences, FiniteSets, TLC

VARIABLES
    \* ---- one pixel channel through forward blend and remove_watermark's inverse
    rt_pc,              \* "start" | "blended" | "restored"
    rt_alpha,           \* opacity byte n of the alpha map cell (alpha = n/255)
    rt_o,               \* original 8-bit channel value
    rt_w,               \* watermarked 8-bit channel value held by the frame buffer
    rt_r,               \* channel value written back by remove_watermark
    rt_den,             \* denominator = 1.0 - alpha, as a numerator over ALPHA_DEN
    \* ---- one frame through the per-frame pipeline of process_video
    pc,                 \* "loaded" | "blend_done" | "veo_done"
    image_array,        \* the frame buffer
    call,               \* the last engine call: its arguments and the buffer before it
    \* ---- one TemporalProcessor (a video session)
    gemini_pos,         \* self.gemini_pos
    veo_pos,            \* self.veo_pos
    prev_gray,          \* self.prev_gray: a grayscale frame or None
    prev_gemini_result, \* self.prev_gemini_result: a crop or None
    prev_veo_result,    \* self.prev_veo_result: a crop or None
    frame_count,        \* self.frame_count
    tcall,              \* the last call on the session: arguments, state before, result
    \* ---- one run of the two position calculators
    pos_pc,             \* "input" | "gemini_done" | "veo_done"
    video_width,        \* info["width"]
    video_height,       \* info["height"]
    pos_gemini,         \* result of calculate_watermark_position
    pos_veo,            \* result of calculate_veo_watermark_position
    \* ---- one call of detect_gemini_watermark
    det_pc,             \* "start" | "done"
    det_region,         \* region: a 1 x DetN grid of pixels
    det_alpha,          \* alpha_map: a 1 x DetN grid of opacity bytes
    det_result,         \* the returned bool
    \* ---- the module-level alpha map cache shared by threads
    alpha_map_cache,    \* _alpha_map_cache: size -> array object, or None
    heap,               \* array objects: heap[0] is remove_watermark's local alpha
    loads,              \* size -> number of load_alpha_map(size) calls completed
    th_pc,              \* thread -> its position in get_alpha_map / remove_watermark
    th_size,            \* thread -> the size argument of its call
    th_obj,             \* thread -> the array load_alpha_map returned to it
    th_ret,             \* thread -> the array get_alpha_map returned to it
    \* ---- process_video's frame loop around its TemporalProcessor
    session_pc,         \* "running" | "failed" (an exception left the loop)
    \* ---- the control flow of process_image / process_video
    pl_kind,            \* "image" | "video"
    pl_pc,              \* the next statement to run
    pl_n,               \* number of frames (1 for an image)
    pl_i,               \* index of the frame in hand
    pl_frame,           \* frame_array / result_array: the frame and the steps applied to it
    pl_original,        \* original_frame: the copy taken before any reconstruction
    pl_engines,         \* number of TemporalProcessor objects created
    pl_trace            \* the components run so far, in order

rtVars == <<rt_pc, rt_alpha, rt_o, rt_w, rt_r, rt_den>>
frameVars == <<pc, image_array, call>>
temporalVars == <<gemini_pos, veo_pos, prev_gray, prev_gemini_result,
                  prev_veo_result, frame_count, tcall>>
posVars == <<pos_pc, video_width, video_height, pos_gemini, pos_veo>>
detVars == <<det_pc, det_region, det_alpha, det_result>>
cacheVars == <<alpha_map_cache, heap, loads, th_pc, th_size, th_obj, th_ret>>
sessVars == <<session_pc>>
plVars == <<pl_kind, pl_pc, pl_n, pl_i, pl_frame, pl_original, pl_engines, pl_trace>>
vars == <<rtVars, frameVars, temporalVars, posVars, detVars, cacheVars, sessVars, plVars>>

\* Python's None, for a field that holds a frame, a crop or a position
None == [none |-> TRUE]

Min(a, b) == IF a <= b THEN a ELSE b
Max(a, b) == IF a >= b THEN a ELSE b
Abs(a) == IF a >= 0 THEN a ELSE -a

\* floor(a / b) for b > 0 and any integer a
FloorDiv(a, b) == a \div b

\* np.clip(v, lo, hi)
Clip(v, lo, hi) == IF v < lo THEN lo ELSE IF v > hi THEN hi ELSE v

(***************************************************************************)
(* core/__init__.py constants.  ALPHA_THRESHOLD = 0.002 and MAX_ALPHA =    *)
(* 0.99 are kept as the integers 2 (thousandths) and 99 (hundredths).      *)
(***************************************************************************)
ALPHA_THRESHOLD_MILLI == 2
MAX_ALPHA_PCT == 99
LOGO_VALUE == 255
BYTE_MAX == 255

\* An opacity is the rational num / ALPHA_DEN (5100 = lcm of 255 and 100).
ALPHA_DEN == BYTE_MAX * 20

\* load_alpha_map: alpha = max(R,G,B) / 255.0, so a cell is n/255 = 20n/ALPHA_DEN
RawAlphaNum(n) == 20 * n

\* a clamp to the range [0, 1] instead of [0, MAX_ALPHA]
ClampedAlphaNumToOne(n) == Clip(RawAlphaNum(n), 0, ALPHA_DEN)
\* remove_watermark: alpha = np.clip(alpha, 0, MAX_ALPHA)
ClampedAlphaNum(n) == Clip(RawAlphaNum(n), 0, (MAX_ALPHA_PCT * ALPHA_DEN) \div 100)

\* a mask with the low-opacity level of the detector (0.05) as threshold
AlphaMaskCoarse(n) == RawAlphaNum(n) * 20 >= ALPHA_DEN
\* remove_watermark: mask = alpha >= ALPHA_THRESHOLD   (on the unclamped map)
AlphaMask(n) == RawAlphaNum(n) * 1000 >= ALPHA_THRESHOLD_MILLI * ALPHA_DEN

(***************************************************************************)
(* remove_watermark, one channel of one pixel with significant alpha:      *)
(*   restored = (w - alpha * LOGO_VALUE) / (1.0 - alpha)                   *)
(*   np.clip(restored, 0, 255).astype(np.uint8)                            *)
(* an = numerator of the (clamped) alpha over ALPHA_DEN.                   *)
(***************************************************************************)
\* a reverser that subtracts the logo but forgets to divide by (1 - alpha)
RestoreChannelNoDivide(w, an) ==
    Clip(FloorDiv(w * ALPHA_DEN - an * LOGO_VALUE, ALPHA_DEN), 0, BYTE_MAX)
RestoreChannel(w, an) ==
    LET numerator == w * ALPHA_DEN - an * LOGO_VALUE
        denominator == ALPHA_DEN - an
    IN  IF numerator <= 0 THEN 0
        ELSE IF numerator >= BYTE_MAX * denominator THEN BYTE_MAX
        ELSE FloorDiv(numerator, denominator)

(***************************************************************************)
(* The compositing formula the reverser inverts (blend.py comments):       *)
(*   watermarked = original * (1 - alpha) + 255 * alpha                    *)
(* stored in an 8-bit frame buffer, rounded to the nearest integer.        *)
(***************************************************************************)
ForwardBlend(o, an) ==
    LET exact == o * (ALPHA_DEN - an) + LOGO_VALUE * an
    IN  FloorDiv(2 * exact + ALPHA_DEN, 2 * ALPHA_DEN)

Bytes == 0..BYTE_MAX

(***************************************************************************)
(* Frames.  A PixelBuffer (H, W, 3) of uint8 is a record                   *)
(*   [h |-> H, w |-> W, px |-> [<<row, col>> |-> <<r, g, b>>]]             *)
(* and a crop image[y:y+h, x:x+w] is a frame of its own.  A position is    *)
(* the record of WatermarkPosition / VeoWatermarkPosition.                 *)
(***************************************************************************)
Coords(h, w) == (0..(h - 1)) \X (0..(w - 1))

Pos(x, y, w, h) == [x |-> x, y |-> y, width |-> w, height |-> h]

\* 3 * np.mean(pixel, axis=2)
Gray3(p) == p[1] + p[2] + p[3]

RECURSIVE SumFun(_, _)
\* f[0] + ... + f[n-1]
SumFun(f, n) == IF n = 0 THEN 0 ELSE f[n - 1] + SumFun(f, n - 1)

\* sum of val[cell] over the cells of an h x w grid that satisfy sel[cell]
SumWhere(h, w, sel, val) ==
    SumFun([k \in 0..(h * w - 1) |->
               LET c == <<k \div w, k % w>> IN IF sel[c] THEN val[c] ELSE 0],
           h * w)

CountWhere(h, w, sel) == Cardinality({c \in Coords(h, w) : sel[c]})

\* the bounds check shared by remove_watermark, remove_veo_watermark and
\* _process_region: x < 0 or y < 0 or x + w > img_w or y + h > img_h
OutOfBounds(img, pos) ==
    \/ pos.x < 0
    \/ pos.y < 0
    \/ pos.x + pos.width > img.w
    \/ pos.y + pos.height > img.h

InBox(rc, pos) ==
    /\ pos.y <= rc[1] /\ rc[1] < pos.y + pos.height
    /\ pos.x <= rc[2] /\ rc[2] < pos.x + pos.width

\* image[y : y + h, x : x + w] for a box inside the frame
Region(img, pos) ==
    [rc \in Coords(pos.height, pos.width) |-> img.px[<<pos.y + rc[1], pos.x + rc[2]>>]]

(***************************************************************************)
(* detect_gemini_watermark(region, alpha_map): region is an h x w grid of  *)
(* pixels, alpha the grid of clamped opacity numerators over ALPHA_DEN.    *)
(***************************************************************************)
\* a detector without check 1 (the brightness contrast)
detect_gemini_watermark_no_contrast(region, alpha, h, w) ==
    LET gray3 == [c \in Coords(h, w) |-> Gray3(region[c])]
        high_alpha_mask == [c \in Coords(h, w) |-> alpha[c] * 10 >= ALPHA_DEN]
        low_alpha_mask == [c \in Coords(h, w) |-> alpha[c] * 20 < ALPHA_DEN]
        very_high_alpha == [c \in Coords(h, w) |-> alpha[c] * 2 >= ALPHA_DEN]
        nH == CountWhere(h, w, high_alpha_mask)
        nL == CountWhere(h, w, low_alpha_mask)
        nV == CountWhere(h, w, very_high_alpha)
        SH == SumWhere(h, w, high_alpha_mask, gray3)
        SL == SumWhere(h, w, low_alpha_mask, gray3)
        SV == SumWhere(h, w, very_high_alpha, gray3)
        AH == SumWhere(h, w, high_alpha_mask, alpha)
        AV == SumWhere(h, w, very_high_alpha, alpha)
        \* brightness_diff < avg_high_alpha * LOGO_VALUE * 0.5
        \*   SH/(3 nH) - SL/(3 nL) < AH/(ALPHA_DEN nH) * 255 / 2
        check1_fails ==
            2 * ALPHA_DEN * (SH * nL - SL * nH) < 3 * nL * AH * LOGO_VALUE
        \* actual_brightness < expected_brightness * 0.7, with
        \*   expected = low_brightness * (1 - avg_vh) + LOGO_VALUE * avg_vh
        check2_fails ==
            10 * SV * nL * ALPHA_DEN
              < 7 * (SL * (ALPHA_DEN * nV - AV) + 3 * LOGO_VALUE * AV * nL)
    IN  IF nH = 0 \/ nL = 0 THEN FALSE
        ELSE IF nV > 0 /\ check2_fails THEN FALSE
        ELSE TRUE
\* a detector asking for a quarter of the theoretical contrast
detect_gemini_watermark_quarter(region, alpha, h, w) ==
    LET gray3 == [c \in Coords(h, w) |-> Gray3(region[c])]
        high_alpha_mask == [c \in Coords(h, w) |-> alpha[c] * 10 >= ALPHA_DEN]
        low_alpha_mask == [c \in Coords(h, w) |-> alpha[c] * 20 < ALPHA_DEN]
        very_high_alpha == [c \in Coords(h, w) |-> alpha[c] * 2 >= ALPHA_DEN]
        nH == CountWhere(h, w, high_alpha_mask)
        nL == CountWhere(h, w, low_alpha_mask)
        nV == CountWhere(h, w, very_high_alpha)
        SH == SumWhere(h, w, high_alpha_mask, gray3)
        SL == SumWhere(h, w, low_alpha_mask, gray3)
        SV == SumWhere(h, w, very_high_alpha, gray3)
        AH == SumWhere(h, w, high_alpha_mask, alpha)
        AV == SumWhere(h, w, very_high_alpha, alpha)
        \* brightness_diff < avg_high_alpha * LOGO_VALUE * 0.5
        \*   SH/(3 nH) - SL/(3 nL) < AH/(ALPHA_DEN nH) * 255 / 2
        check1_fails ==
            4 * ALPHA_DEN * (SH * nL - SL * nH) < 3 * nL * AH * LOGO_VALUE
        \* actual_brightness < expected_brightness * 0.7, with
        \*   expected = low_brightness * (1 - avg_vh) + LOGO_VALUE * avg_vh
        check2_fails ==
            10 * SV * nL * ALPHA_DEN
              < 7 * (SL * (ALPHA_DEN * nV - AV) + 3 * LOGO_VALUE * AV * nL)
    IN  IF nH = 0 \/ nL = 0 THEN FALSE
        ELSE IF check1_fails THEN FALSE
        ELSE IF nV > 0 /\ check2_fails THEN FALSE
        ELSE TRUE
\* a detector without check 2 (the brightness of the very high cells)
detect_gemini_watermark_no_whiteness(region, alpha, h, w) ==
    LET gray3 == [c \in Coords(h, w) |-> Gray3(region[c])]
        high_alpha_mask == [c \in Coords(h, w) |-> alpha[c] * 10 >= ALPHA_DEN]
        low_alpha_mask == [c \in Coords(h, w) |-> alpha[c] * 20 < ALPHA_DEN]
        very_high_alpha == [c \in Coords(h, w) |-> alpha[c] * 2 >= ALPHA_DEN]
        nH == CountWhere(h, w, high_alpha_mask)
        nL == CountWhere(h, w, low_alpha_mask)
        nV == CountWhere(h, w, very_high_alpha)
        SH == SumWhere(h, w, high_alpha_mask, gray3)
        SL == SumWhere(h, w, low_alpha_mask, gray3)
        SV == SumWhere(h, w, very_high_alpha, gray3)
        AH == SumWhere(h, w, high_alpha_mask, alpha)
        AV == SumWhere(h, w, very_high_alpha, alpha)
        \* brightness_diff < avg_high_alpha * LOGO_VALUE * 0.5
        \*   SH/(3 nH) - SL/(3 nL) < AH/(ALPHA_DEN nH) * 255 / 2
        check1_fails ==
            2 * ALPHA_DEN * (SH * nL - SL * nH) < 3 * nL * AH * LOGO_VALUE
        \* actual_brightness < expected_brightness * 0.7, with
        \*   expected = low_brightness * (1 - avg_vh) + LOGO_VALUE * avg_vh
        check2_fails ==
            10 * SV * nL * ALPHA_DEN
              < 7 * (SL * (ALPHA_DEN * nV - AV) + 3 * LOGO_VALUE * AV * nL)
    IN  IF nH = 0 \/ nL = 0 THEN FALSE
        ELSE IF check1_fails THEN FALSE
        ELSE TRUE
detect_gemini_watermark(region, alpha, h, w) ==
    LET gray3 == [c \in Coords(h, w) |-> Gray3(region[c])]
        high_alpha_mask == [c \in Coords(h, w) |-> alpha[c] * 10 >= ALPHA_DEN]
        low_alpha_mask == [c \in Coords(h, w) |-> alpha[c] * 20 < ALPHA_DEN]
        very_high_alpha == [c \in Coords(h, w) |-> alpha[c] * 2 >= ALPHA_DEN]
        nH == CountWhere(h, w, high_alpha_mask)
        nL == CountWhere(h, w, low_alpha_mask)
        nV == CountWhere(h, w, very_high_alpha)
        SH == SumWhere(h, w, high_alpha_mask, gray3)
        SL == SumWhere(h, w, low_alpha_mask, gray3)
        SV == SumWhere(h, w, very_high_alpha, gray3)
        AH == SumWhere(h, w, high_alpha_mask, alpha)
        AV == SumWhere(h, w, very_high_alpha, alpha)
        \* brightness_diff < avg_high_alpha * LOGO_VALUE * 0.5
        \*   SH/(3 nH) - SL/(3 nL) < AH/(ALPHA_DEN nH) * 255 / 2
        check1_fails ==
            2 * ALPHA_DEN * (SH * nL - SL * nH) < 3 * nL * AH * LOGO_VALUE
        \* actual_brightness < expected_brightness * 0.7, with
        \*   expected = low_brightness * (1 - avg_vh) + LOGO_VALUE * avg_vh
        check2_fails ==
            10 * SV * nL * ALPHA_DEN
              < 7 * (SL * (ALPHA_DEN * nV - AV) + 3 * LOGO_VALUE * AV * nL)
    IN  IF nH = 0 \/ nL = 0 THEN FALSE
        ELSE IF check1_fails THEN FALSE
        ELSE IF nV > 0 /\ check2_fails THEN FALSE
        ELSE TRUE

(***************************************************************************)
(* remove_watermark(image_array, alpha_map, position).  alpha_map is the   *)
(* size x size grid of opacity bytes from get_alpha_map(position.size).    *)
(* The result is the buffer after the call (it is mutated in place).       *)
(***************************************************************************)
ClampedAlpha(alpha_map, pos) ==
    [c \in Coords(pos.height, pos.width) |-> ClampedAlphaNum(alpha_map[c])]

RestorePixel(p, n) ==
    IF AlphaMask(n)
    THEN [k \in 1..3 |-> RestoreChannel(p[k], ClampedAlphaNum(n))]
    ELSE p

\* the presence of the watermark as remove_watermark asks for it (lines 83-93)
WatermarkDetected(img, alpha_map, pos) ==
    detect_gemini_watermark(Region(img, pos), ClampedAlpha(alpha_map, pos),
                            pos.height, pos.width)

\* a reverser that skips the presence check
remove_watermark_unguarded(img, alpha_map, pos) ==
    IF OutOfBounds(img, pos) THEN img
    ELSE [img EXCEPT !.px = [rc \in DOMAIN img.px |->
            IF InBox(rc, pos)
            THEN RestorePixel(img.px[rc], alpha_map[<<rc[1] - pos.y, rc[2] - pos.x>>])
            ELSE img.px[rc]]]
remove_watermark(img, alpha_map, pos) ==
    IF OutOfBounds(img, pos) THEN img
    ELSE IF ~WatermarkDetected(img, alpha_map, pos) THEN img
    ELSE [img EXCEPT !.px = [rc \in DOMAIN img.px |->
            IF InBox(rc, pos)
            THEN RestorePixel(img.px[rc], alpha_map[<<rc[1] - pos.y, rc[2] - pos.x>>])
            ELSE img.px[rc]]]


(***************************************************************************)
(* remove_veo_watermark(image_array, veo_pos)                              *)
(***************************************************************************)
feather_size == 5

\* the k-th smallest (k = 0, 1, ...) of the values of an h x w grid
KthSmallest(vals, h, w, k) ==
    CHOOSE v \in {vals[c] : c \in Coords(h, w)} :
        /\ Cardinality({c \in Coords(h, w) : vals[c] < v}) <= k
        /\ k < Cardinality({c \in Coords(h, w) : vals[c] <= v})

\* 10 * np.percentile(vals, 30): linear interpolation at index 0.3 * (N - 1)
Percentile30x10(vals, h, w) ==
    LET N == h * w
        idx10 == 3 * (N - 1)
        lo == idx10 \div 10
        hi == Min(lo + 1, N - 1)
        s_lo == KthSmallest(vals, h, w, lo)
        s_hi == KthSmallest(vals, h, w, hi)
    IN  10 * s_lo + (idx10 % 10) * (s_hi - s_lo)

\* target_region / source_region (lines 108-109), boxes inside the frame
TargetRegion(img, pos) == Region(img, pos)
SourceRegion(img, pos) == Region(img, [pos EXCEPT !.y = pos.y - pos.height])

\* 30 * background_level, from the channel sums of the target region
BackgroundLevel30(img, pos) ==
    Percentile30x10([c \in Coords(pos.height, pos.width) |->
                        Gray3(TargetRegion(img, pos)[c])],
                    pos.height, pos.width)

\* is_dynamic = abs(source_mean - background_level) > max(15, background_level * 0.5)
IsDynamic(img, pos) ==
    LET N == pos.height * pos.width
        src == SourceRegion(img, pos)
        SS == SumFun([k \in 0..(N - 1) |->
                        Gray3(src[<<k \div pos.width, k % pos.width>>])], N)
        bg30 == BackgroundLevel30(img, pos)
    IN  2 * Abs(10 * SS - N * bg30) > Max(900 * N, N * bg30)

\* watermark_mask = (target_gray - background_level) > max(30, background_level * 0.5)
WatermarkMask(img, pos) ==
    LET bg30 == BackgroundLevel30(img, pos)
        tgt == TargetRegion(img, pos)
    IN  [c \in Coords(pos.height, pos.width) |->
            20 * Gray3(tgt[c]) - 2 * bg30 > Max(1800, bg30)]

\* cv2.dilate(watermark_mask, np.ones((3, 3)), iterations=1)
Dilate(mask, h, w) ==
    [c \in Coords(h, w) |->
        \E d \in Coords(h, w) :
            /\ Abs(d[1] - c[1]) <= 1 /\ Abs(d[2] - c[2]) <= 1 /\ mask[d]]

\* Static path (lines 159-172): the source crop with its top rows and then its
\* left columns feathered into the target, one channel; the value is in 25ths.
FeatherChannel25(t, s, i, j) ==
    LET rows5 == IF i < feather_size THEN (feather_size - i) * t + i * s
                 ELSE feather_size * s
    IN  IF j < feather_size THEN (feather_size - j) * feather_size * t + j * rows5
        ELSE feather_size * rows5

StaticResult(img, pos) ==
    LET tgt == TargetRegion(img, pos)
        src == SourceRegion(img, pos)
    IN  [c \in Coords(pos.height, pos.width) |->
            [k \in 1..3 |->
                Clip(FloorDiv(FeatherChannel25(tgt[c][k], src[c][k], c[1], c[2]),
                              feather_size * feather_size), 0, BYTE_MAX)]]

\* Dynamic path (lines 124-156): cv2.inpaint over the padded copy ext_region
\* replaces the pixels under the dilated mask and keeps every other pixel of
\* the copy; the filled values are the library's, given here by fill[cell].
DynamicResult(img, pos, fill) ==
    LET tgt == TargetRegion(img, pos)
        dilated == Dilate(WatermarkMask(img, pos), pos.height, pos.width)
    IN  [c \in Coords(pos.height, pos.width) |->
            IF dilated[c] THEN fill[c] ELSE tgt[c]]

\* image_array[y : y + h, x : x + w] = result
WriteBox(img, pos, result) ==
    [img EXCEPT !.px = [rc \in DOMAIN img.px |->
        IF InBox(rc, pos) THEN result[<<rc[1] - pos.y, rc[2] - pos.x>>]
        ELSE img.px[rc]]]

\* the path remove_veo_watermark takes
VeoPath(img, pos) ==
    IF OutOfBounds(img, pos) THEN "out_of_bounds"
    ELSE IF pos.y < pos.height THEN "no_source"
    ELSE IF IsDynamic(img, pos)
         THEN LET watermark_mask == WatermarkMask(img, pos)
              IN  IF \E c \in Coords(pos.height, pos.width) : watermark_mask[c]
                  THEN "inpaint" ELSE "empty_mask"
         ELSE IF pos.height < feather_size \/ pos.width < feather_size
              THEN "index_error"   \* result[i, :] past the crop's last row
              ELSE "static"

\* a remover that writes its result over the sampled strip above the box
remove_veo_watermark_shifted(img, pos, fill) ==
    LET path == VeoPath(img, pos)
        above == [pos EXCEPT !.y = pos.y - pos.height]
    IN  IF path = "inpaint" THEN WriteBox(img, above, DynamicResult(img, pos, fill))
        ELSE IF path = "static" THEN WriteBox(img, above, StaticResult(img, pos))
        ELSE img
\* a remover without the "enough space above" check, sampling row 0 for the
\* rows that do not exist
remove_veo_watermark_no_row_check(img, pos, fill) ==
    IF OutOfBounds(img, pos) THEN img
    ELSE WriteBox(img, pos,
            [c \in Coords(pos.height, pos.width) |->
                img.px[<<Max(0, pos.y - pos.height + c[1]), pos.x + c[2]>>]])
remove_veo_watermark(img, pos, fill) ==
    LET path == VeoPath(img, pos)
    IN  IF path = "inpaint" THEN WriteBox(img, pos, DynamicResult(img, pos, fill))
        ELSE IF path = "static" THEN WriteBox(img, pos, StaticResult(img, pos))
        ELSE img

(***************************************************************************)
(* core/temporal.py                                                        *)
(***************************************************************************)
TEMPORAL_BLEND_ALPHA_TENTHS == 7
SCENE_CUT_THRESHOLD == 30
CHANGE_CLAMP_THRESHOLD == 50
FLOW_MAGNITUDE_THRESHOLD == 100

\* cv2.cvtColor(frame, cv2.COLOR_RGB2GRAY): 0.299 R + 0.587 G + 0.114 B, rounded
RGB2GRAY(p) == (299 * p[1] + 587 * p[2] + 114 * p[3] + 500) \div 1000

GrayFrame(img) ==
    [h |-> img.h, w |-> img.w, px |-> [rc \in DOMAIN img.px |-> RGB2GRAY(img.px[rc])]]

\* np.sqrt(dx ** 2 + dy ** 2) of a flow vector <<dx, dy>> (the flow fields of
\* the model have vectors of integer length)
Magnitude(v) ==
    IF v[2] = 0 THEN Abs(v[1])
    ELSE IF v[1] = 0 THEN Abs(v[2])
    ELSE CHOOSE m \in 0..(Abs(v[1]) + Abs(v[2])) : m * m = v[1] * v[1] + v[2] * v[2]

\* np.mean(magnitude) > threshold over an h x w field (or sub-field)
MeanMagnitudeExceeds(flow, h, w, threshold) ==
    SumFun([k \in 0..(h * w - 1) |-> Magnitude(flow[<<k \div w, k % w>>])], h * w)
        > threshold * h * w

\* a detector that looks at the mean only
detect_scene_cut_mean_only(flow, h, w) ==
    MeanMagnitudeExceeds(flow, h, w, SCENE_CUT_THRESHOLD)
detect_scene_cut(flow, h, w) ==
    \/ MeanMagnitudeExceeds(flow, h, w, SCENE_CUT_THRESHOLD)
    \/ \E c \in Coords(h, w) : Magnitude(flow[c]) > FLOW_MAGNITUDE_THRESHOLD

\* cv2.BORDER_REFLECT_101 of coordinate p in 0..len-1
Reflect101(p, len) ==
    IF len = 1 THEN 0
    ELSE LET period == 2 * (len - 1)
             m == p % period
         IN  IF m < len THEN m ELSE period - m

\* warp_region(region, flow_region): cv2.remap of the crop at
\* (x + dx, y + dy); with whole-pixel flow the bilinear sample is the pixel
warp_region(region, flow_region) ==
    [c \in Coords(region.h, region.w) |->
        region.px[<<Reflect101(c[1] + flow_region[c][2], region.h),
                    Reflect101(c[2] + flow_region[c][1], region.w)>>]]

\* blend_with_temporal, one channel, in tenths:
\*   alpha * current_result + (1 - alpha) * warped_previous
blend_with_temporal(current_result, warped_previous) ==
    TEMPORAL_BLEND_ALPHA_TENTHS * current_result
      + (10 - TEMPORAL_BLEND_ALPHA_TENTHS) * warped_previous

\* a clamp that forgets to limit the difference
clamp_changes_unclamped(current10, previous) ==
    FloorDiv(Clip(current10, 0, 10 * BYTE_MAX), 10)
\* clamp_changes(current, previous), one channel; current is in tenths
clamp_changes(current10, previous) ==
    LET diff10 == current10 - 10 * previous
        clamped_diff10 == Clip(diff10, -10 * CHANGE_CLAMP_THRESHOLD,
                               10 * CHANGE_CLAMP_THRESHOLD)
        result10 == 10 * previous + clamped_diff10
    IN  FloorDiv(Clip(result10, 0, 10 * BYTE_MAX), 10)

\* result[y : y + h, x : x + w] for an origin inside the frame: numpy cuts the
\* slice at the frame's edge
Crop(img, pos) ==
    LET ch == Min(pos.height, img.h - pos.y)
        cw == Min(pos.width, img.w - pos.x)
    IN  [h |-> ch, w |-> cw,
         px |-> [rc \in Coords(ch, cw) |-> img.px[<<pos.y + rc[1], pos.x + rc[2]>>]]]

\* flow[y : y + h, x : x + w] for a box inside the frame
FlowRegion(flow, pos) ==
    [c \in Coords(pos.height, pos.width) |-> flow[<<pos.y + c[1], pos.x + c[2]>>]]

\* the crop _process_region writes (lines 281-291)
SmoothedRegion(result, flow, pos, prev_region_result) ==
    LET warped_prev == warp_region(prev_region_result, FlowRegion(flow, pos))
    IN  [c \in Coords(pos.height, pos.width) |->
            [k \in 1..3 |->
                clamp_changes(
                    blend_with_temporal(result.px[<<pos.y + c[1], pos.x + c[2]>>][k],
                                        warped_prev[c][k]),
                    warped_prev[c][k])]]

\* whether _process_region smooths the region (lines 265-279)
RegionSmoothed(result, flow, pos, prev_region_result) ==
    /\ prev_region_result # None
    /\ ~OutOfBounds(result, pos)
    /\ ~MeanMagnitudeExceeds(FlowRegion(flow, pos), pos.height, pos.width,
                             SCENE_CUT_THRESHOLD)

\* TemporalProcessor._process_region
process_region(result, flow, pos, prev_region_result) ==
    IF RegionSmoothed(result, flow, pos, prev_region_result)
    THEN WriteBox(result, pos, SmoothedRegion(result, flow, pos, prev_region_result))
    ELSE result

\* an _update_state that keeps the crops only when the whole box is in the frame
StoredCropWholeBoxOnly(result, pos) ==
    IF OutOfBounds(result, pos) THEN None ELSE Crop(result, pos)
\* TemporalProcessor._update_state: the crop stored for one region
StoredCrop(result, pos) ==
    IF 0 <= pos.x /\ pos.x < result.w /\ 0 <= pos.y /\ pos.y < result.h
    THEN Crop(result, pos)
    ELSE None

(***************************************************************************)
(* Inputs of the per-frame pipeline: small frames, boxes and alpha maps.   *)
(***************************************************************************)
FrameH == 11
FrameW == 10

Dark == <<10, 20, 30>>
Mid == <<120, 130, 140>>
Light == <<200, 210, 220>>
White == <<255, 255, 255>>

\* the boxes the frames are laid out for
GeminiSize == 2
GeminiBox == Pos(4, 2, GeminiSize, GeminiSize)
VeoBox == Pos(1, feather_size, feather_size, feather_size)

\* reference opacity grids (bytes n, alpha = n/255), by kind
AlphaKinds == {"sparkle", "faint", "flat", "full"}
AlphaMapOf(kind, size) ==
    [c \in Coords(size, size) |->
        CASE kind = "sparkle" -> IF (c[1] + c[2]) % 2 = 0 THEN 200 ELSE 0
          [] kind = "faint"   -> IF (c[1] + c[2]) % 2 = 0 THEN 40 ELSE 5
          [] kind = "flat"    -> 0
          [] kind = "full"    -> IF c[1] = c[2] THEN 255 ELSE 0]

\* the cells of the overlay box that carry white glyph pixels
Glyph == {<<VeoBox.y + 2, VeoBox.x + 1>>, <<VeoBox.y + 2, VeoBox.x + 2>>,
          <<VeoBox.y + 3, VeoBox.x + 3>>}

\* a frame with colour top above the overlay box's first row and bot from
\* there on, optionally with the glyph painted
BaseFrame(top, bot, glyph) ==
    [h |-> FrameH, w |-> FrameW,
     px |-> [rc \in Coords(FrameH, FrameW) |->
                IF glyph /\ rc \in Glyph THEN White
                ELSE IF rc[1] < VeoBox.y THEN top ELSE bot]]

\* the blend-type watermark painted over a frame by the forward formula
StampWatermark(img, alpha_map, pos) ==
    [img EXCEPT !.px = [rc \in DOMAIN img.px |->
        IF InBox(rc, pos)
        THEN [k \in 1..3 |->
                ForwardBlend(img.px[rc][k],
                             RawAlphaNum(alpha_map[<<rc[1] - pos.y, rc[2] - pos.x>>]))]
        ELSE img.px[rc]]]

InputFrames ==
    LET bases == {BaseFrame(top, bot, glyph) :
                    top \in {Dark, Mid, Light}, bot \in {Dark, Mid, Light},
                    glyph \in BOOLEAN}
    IN  bases \cup {StampWatermark(f, AlphaMapOf(kind, GeminiSize), GeminiBox) :
                        f \in bases, kind \in AlphaKinds \ {"flat"}}

GeminiPositions ==
    {GeminiBox, Pos(0, 0, GeminiSize, GeminiSize),
     Pos(-1, 2, GeminiSize, GeminiSize),
     Pos(FrameW - 1, 2, GeminiSize, GeminiSize),
     Pos(4, FrameH - 1, GeminiSize, GeminiSize)}

VeoPositions ==
    {VeoBox, [VeoBox EXCEPT !.x = FrameW - VeoBox.width],
     [VeoBox EXCEPT !.y = FrameH - VeoBox.height],
     [VeoBox EXCEPT !.y = VeoBox.height - 1],
     [VeoBox EXCEPT !.x = -1],
     [VeoBox EXCEPT !.x = FrameW - VeoBox.width + 1],
     [VeoBox EXCEPT !.y = FrameH - VeoBox.height + 1]}

\* values cv2.inpaint may give the masked pixels
InpaintFills(pos) ==
    {[c \in Coords(pos.height, pos.width) |-> Mid],
     [c \in Coords(pos.height, pos.width) |->
        IF (c[1] + c[2]) % 2 = 0 THEN Dark ELSE Light]}

NoCall == [op |-> "none"]

\* remove_watermark raises only when the alpha map does not have the box's
\* shape (boolean-mask indexing of the region, after the bounds check)
RemoveWatermarkRaises(img, alpha_map, pos) ==
    /\ ~OutOfBounds(img, pos)
    /\ DOMAIN alpha_map # Coords(pos.height, pos.width)

FrameInit ==
    /\ pc = "loaded"
    /\ image_array \in InputFrames
    /\ call = NoCall

FrameIdle ==
    /\ pc = "off"
    /\ image_array = None
    /\ call = NoCall

\* process_video line 257 / process_image line 50
RemoveWatermark ==
    /\ pc = "loaded"
    /\ \E kind \in AlphaKinds, pos \in GeminiPositions :
         LET alpha_map == AlphaMapOf(kind, pos.width) IN
         /\ image_array' = remove_watermark(image_array, alpha_map, pos)
         /\ call' = [op |-> "remove_watermark", pre |-> image_array,
                     alpha_map |-> alpha_map, pos |-> pos,
                     raised |-> RemoveWatermarkRaises(image_array, alpha_map, pos)]
    /\ pc' = "blend_done"

\* process_video line 260
RemoveVeoWatermark ==
    /\ pc = "blend_done"
    /\ \E pos \in VeoPositions :
       \E fill \in InpaintFills(pos), path \in {VeoPath(image_array, pos)} :
         /\ image_array' = remove_veo_watermark(image_array, pos, fill)
         /\ call' = [op |-> "remove_veo_watermark", pre |-> image_array,
                     pos |-> pos, path |-> path,
                     raised |-> path = "index_error"]
    /\ pc' = "veo_done"

FrameNext ==
    \/ RemoveWatermark /\ UNCHANGED <<rtVars, temporalVars, posVars, detVars, cacheVars, sessVars, plVars>>
    \/ RemoveVeoWatermark /\ UNCHANGED <<rtVars, temporalVars, posVars, detVars, cacheVars, sessVars, plVars>>

RtIdle ==
    /\ rt_pc = "off"
    /\ rt_alpha = 0
    /\ rt_o = 0
    /\ rt_w = 0
    /\ rt_r = 0
    /\ rt_den = 0

(***************************************************************************)
(* Claims about the two reconstruction engines (SpecFrame).                *)
(***************************************************************************)
\* C2: whenever the presence detector reports "not present" for the region
\* under the blend-type box, remove_watermark returns the buffer with every
\* byte equal to its input.
C2_CleanFrameUnchanged ==
    ( /\ call.op = "remove_watermark"
      /\ ~OutOfBounds(call.pre, call.pos)
      /\ ~WatermarkDetected(call.pre, call.alpha_map, call.pos) )
    => image_array = call.pre

\* a rejected frame whose box the inverse formula would have rewritten
C2_Witness ==
    /\ call.op = "remove_watermark"
    /\ ~OutOfBounds(call.pre, call.pos)
    /\ ~WatermarkDetected(call.pre, call.alpha_map, call.pos)
    /\ remove_watermark_unguarded(call.pre, call.alpha_map, call.pos) # call.pre
    /\ image_array = call.pre

\* C3: remove_veo_watermark never writes outside [x, x+w) x [y, y+h): on every
\* path each pixel outside the box keeps its value, the padded context of the
\* inpainting and the source strip above the box included.
C3_VeoWritesOnlyBox ==
    call.op = "remove_veo_watermark" =>
        /\ image_array.h = call.pre.h
        /\ image_array.w = call.pre.w
        /\ \A rc \in DOMAIN call.pre.px :
              ~InBox(rc, call.pos) => image_array.px[rc] = call.pre.px[rc]

\* an inpainting call that changed the frame
C3_Witness ==
    /\ call.op = "remove_veo_watermark"
    /\ call.path = "inpaint"
    /\ image_array # call.pre

\* the static copy is taken too, and changes the frame
C3_StaticReached ==
    /\ call.op = "remove_veo_watermark"
    /\ call.path = "static"
    /\ image_array # call.pre

\* C4: out-of-bounds geometry is a silent no-op in both engines: a blend-type
\* box that does not fit the frame, and an overlay-type box that does not fit
\* or has fewer rows above it than its height, leave the buffer unchanged and
\* raise nothing.
C4_OutOfBoundsNoOp ==
    /\ ( call.op = "remove_watermark" /\ OutOfBounds(call.pre, call.pos) )
       => ( image_array = call.pre /\ ~call.raised )
    /\ ( /\ call.op = "remove_veo_watermark"
         /\ (OutOfBounds(call.pre, call.pos) \/ call.pos.y < call.pos.height) )
       => ( image_array = call.pre /\ ~call.raised )

\* an overlay box inside the frame with too few rows above it
C4_Witness ==
    /\ call.op = "remove_veo_watermark"
    /\ ~OutOfBounds(call.pre, call.pos)
    /\ call.pos.y < call.pos.height
    /\ \E c \in Coords(call.pos.height, call.pos.width) :
          call.pre.px[<<c[1], call.pos.x + c[2]>>]
            # call.pre.px[<<call.pos.y + c[1], call.pos.x + c[2]>>]
    /\ image_array = call.pre

\* the opacity byte of the alpha map cell over frame pixel rc
CellOver(rc, pos, alpha_map) == alpha_map[<<rc[1] - pos.y, rc[2] - pos.x>>]

\* (w - a * 255) / (1 - a) clamped to [0, 255], a = min(n / 255, 0.99)
InverseClamped(w, n) ==
    LET a100 == IF 100 * n > 99 * 255 THEN 99 * 255 ELSE 100 * n
    IN  Clip((w * 25500 - a100 * 255) \div (25500 - a100), 0, 255)

\* C17: when the watermark is judged present, remove_watermark rewrites
\* exactly the region pixels whose unclamped opacity is >= 0.002, each
\* channel becoming the inverse-formula value clamped to [0,255]; region
\* pixels below 0.002 and pixels outside the region keep their input value.
C17_RewritesSignificantPixels ==
    ( /\ call.op = "remove_watermark"
      /\ ~OutOfBounds(call.pre, call.pos)
      /\ WatermarkDetected(call.pre, call.alpha_map, call.pos) )
    => \A rc \in DOMAIN image_array.px :
          IF InBox(rc, call.pos)
             /\ 1000 * CellOver(rc, call.pos, call.alpha_map) >= 2 * 255
          THEN \A k \in 1..3 :
                  image_array.px[rc][k]
                    = InverseClamped(call.pre.px[rc][k],
                                     CellOver(rc, call.pos, call.alpha_map))
          ELSE image_array.px[rc] = call.pre.px[rc]

\* a detected watermark: a faint cell (opacity 5/255, between 0.002 and the
\* detector's 0.05) is rewritten
C17_Witness ==
    /\ call.op = "remove_watermark"
    /\ ~OutOfBounds(call.pre, call.pos)
    /\ WatermarkDetected(call.pre, call.alpha_map, call.pos)
    /\ \E rc \in DOMAIN image_array.px :
          /\ InBox(rc, call.pos)
          /\ CellOver(rc, call.pos, call.alpha_map) = 5
          /\ image_array.px[rc] # call.pre.px[rc]

\* a detected watermark with cells of opacity 0 in the region, left alone
\* next to cells that are rewritten
C17_ZeroCellReached ==
    /\ call.op = "remove_watermark"
    /\ ~OutOfBounds(call.pre, call.pos)
    /\ WatermarkDetected(call.pre, call.alpha_map, call.pos)
    /\ \E rc \in DOMAIN image_array.px :
          /\ InBox(rc, call.pos)
          /\ CellOver(rc, call.pos, call.alpha_map) = 0
    /\ image_array # call.pre

(***************************************************************************)
(* A video session: TemporalProcessor(gemini_pos, veo_pos), process_frame  *)
(* and reset.  The dense flow of cv2.calcOpticalFlowFarneback is an input  *)
(* of the call, as the frames are.                                         *)
(***************************************************************************)
MaxFrames == 2
TemporalH == 4
TemporalW == 5

TGeminiSize == 2
TVeoWidth == 3
TVeoHeight == 2

GPos(x, y) == Pos(x, y, TGeminiSize, TGeminiSize)
VPos(x, y) == Pos(x, y, TVeoWidth, TVeoHeight)

\* <<gemini_pos, veo_pos>>: disjoint boxes; overlapping boxes (as for a
\* 1024 x 1024 video, blend box [944, 992) x [944, 992), overlay box
\* [899, 999) x [964, 1009)); a blend box left of the frame (as for a video
\* narrower than 80); an overlay box sticking out of the frame
PositionPairs ==
    {<<GPos(0, 0), VPos(TGeminiSize, TGeminiSize)>>,
     <<GPos(2, 1), VPos(2, 2)>>,
     <<GPos(-1, 0), VPos(2, 2)>>,
     <<GPos(0, 0), VPos(TemporalW - 2, TemporalH - 1)>>}

UniformFrame(colour) ==
    [h |-> TemporalH, w |-> TemporalW,
     px |-> [rc \in Coords(TemporalH, TemporalW) |-> colour]]

GradientFrame ==
    [h |-> TemporalH, w |-> TemporalW,
     px |-> [rc \in Coords(TemporalH, TemporalW) |->
                <<10 + 40 * rc[1] + 7 * rc[2], 20 + 30 * rc[2],
                  200 - 25 * rc[1] - 3 * rc[2]>>]]

OriginalFrames == {UniformFrame(Dark), GradientFrame}
CandidateFrames == {UniformFrame(Dark), UniformFrame(White), GradientFrame}

FlowKinds == {"zero", "shift", "diag", "huge", "spike", "local_gemini", "local_veo"}
FlowOf(kind, gpos, vpos) ==
    [rc \in Coords(TemporalH, TemporalW) |->
        CASE kind = "zero"  -> <<0, 0>>
          [] kind = "shift" -> <<1, 0>>
          [] kind = "diag"  -> <<3, -4>>
          [] kind = "huge"  -> <<0, SCENE_CUT_THRESHOLD + 10>>
          [] kind = "spike" -> IF rc = <<0, 0>>
                               THEN <<FLOW_MAGNITUDE_THRESHOLD + 1, 0>> ELSE <<0, 0>>
          [] kind = "local_gemini" -> IF InBox(rc, gpos)
                                      THEN <<2 * SCENE_CUT_THRESHOLD, 0>> ELSE <<0, 0>>
          [] kind = "local_veo" -> IF InBox(rc, vpos)
                                   THEN <<0, 2 * SCENE_CUT_THRESHOLD>> ELSE <<0, 0>>]

\* TemporalProcessor.__init__
TemporalInit ==
    /\ \E pp \in PositionPairs : gemini_pos = pp[1] /\ veo_pos = pp[2]
    /\ prev_gray = None
    /\ prev_gemini_result = None
    /\ prev_veo_result = None
    /\ frame_count = 0
    /\ tcall = NoCall

TemporalIdle ==
    /\ gemini_pos = None
    /\ veo_pos = None
    /\ prev_gray = None
    /\ prev_gemini_result = None
    /\ prev_veo_result = None
    /\ frame_count = 0
    /\ tcall = NoCall

\* the TemporalProcessor object
Self ==
    [gemini_pos |-> gemini_pos, veo_pos |-> veo_pos, prev_gray |-> prev_gray,
     prev_gemini_result |-> prev_gemini_result,
     prev_veo_result |-> prev_veo_result, frame_count |-> frame_count]

\* the two arrays handed to cv2.calcOpticalFlowFarneback differ in shape
ShapeMismatch(prev, frame) == prev.h # frame.h \/ prev.w # frame.w

\* TemporalProcessor._update_state(curr_gray, result)
update_state(self, curr_gray, result) ==
    [self EXCEPT !.prev_gray = curr_gray,
                 !.prev_gemini_result = StoredCrop(result, self.gemini_pos),
                 !.prev_veo_result = StoredCrop(result, self.veo_pos)]

\* a process_frame that drops its baseline on a scene cut, as reset() does
process_frame_cut_resets(self, original_frame, current_result, flow) ==
    LET counted == [self EXCEPT !.frame_count = self.frame_count + 1]
        curr_gray == GrayFrame(original_frame)
        after_gemini == process_region(current_result, flow, self.gemini_pos,
                                       self.prev_gemini_result)
        result == process_region(after_gemini, flow, self.veo_pos,
                                 self.prev_veo_result)
    IN  IF self.prev_gray = None
        THEN [path |-> "first", mid |-> current_result, out |-> current_result,
              self |-> update_state(counted, curr_gray, current_result)]
        ELSE IF detect_scene_cut(flow, original_frame.h, original_frame.w)
        THEN [path |-> "scene_cut", mid |-> current_result, out |-> current_result,
              self |-> [counted EXCEPT !.prev_gray = None,
                                       !.prev_gemini_result = None,
                                       !.prev_veo_result = None]]
        ELSE [path |-> "smoothed", mid |-> after_gemini, out |-> result,
              self |-> update_state(counted, curr_gray, result)]
\* a process_frame that smooths its first frame against an all-black baseline
process_frame_smooths_first(self, original_frame, current_result, flow) ==
    LET counted == [self EXCEPT !.frame_count = self.frame_count + 1]
        curr_gray == GrayFrame(original_frame)
        black == [current_result EXCEPT
                    !.px = [rc \in DOMAIN current_result.px |-> <<0, 0, 0>>]]
        after_gemini ==
            process_region(current_result, flow, self.gemini_pos,
                           IF self.prev_gray = None
                           THEN StoredCrop(black, self.gemini_pos)
                           ELSE self.prev_gemini_result)
        result ==
            process_region(after_gemini, flow, self.veo_pos,
                           IF self.prev_gray = None
                           THEN StoredCrop(black, self.veo_pos)
                           ELSE self.prev_veo_result)
    IN  IF self.prev_gray # None
           /\ detect_scene_cut(flow, original_frame.h, original_frame.w)
        THEN [path |-> "scene_cut", mid |-> current_result, out |-> current_result,
              self |-> update_state(counted, curr_gray, current_result)]
        ELSE [path |-> IF self.prev_gray = None THEN "first" ELSE "smoothed",
              mid |-> after_gemini, out |-> result,
              self |-> update_state(counted, curr_gray, result)]
\* a process_frame that takes a frame of another size as a new first frame
process_frame_rebaselines(self, original_frame, current_result, flow) ==
    LET counted == [self EXCEPT !.frame_count = self.frame_count + 1]
        curr_gray == GrayFrame(original_frame)
        after_gemini == process_region(current_result, flow, self.gemini_pos,
                                       self.prev_gemini_result)
        result == process_region(after_gemini, flow, self.veo_pos,
                                 self.prev_veo_result)
    IN  IF self.prev_gray = None
        THEN [path |-> "first", mid |-> current_result, out |-> current_result,
              self |-> update_state(counted, curr_gray, current_result)]
        ELSE IF ShapeMismatch(self.prev_gray, original_frame)
        THEN [path |-> "first", mid |-> current_result, out |-> current_result,
              self |-> update_state(counted, curr_gray, current_result)]
        ELSE IF detect_scene_cut(flow, original_frame.h, original_frame.w)
        THEN [path |-> "scene_cut", mid |-> current_result, out |-> current_result,
              self |-> update_state(counted, curr_gray, current_result)]
        ELSE [path |-> "smoothed", mid |-> after_gemini, out |-> result,
              self |-> update_state(counted, curr_gray, result)]
\* TemporalProcessor.process_frame(original_frame, current_result), with the
\* flow compute_optical_flow returns when it is called; the result gives the
\* returned frame (out), the frame after the first region's pass (mid), the
\* branch taken and the object after the call.  With a previous frame of another size
\* compute_optical_flow's cv2.calcOpticalFlowFarneback raises cv2.error
\* (it asserts prev.size() == next.size()): the call returns nothing and
\* only frame_count has changed
process_frame(self, original_frame, current_result, flow) ==
    LET counted == [self EXCEPT !.frame_count = self.frame_count + 1]
        curr_gray == GrayFrame(original_frame)
        after_gemini == process_region(current_result, flow, self.gemini_pos,
                                       self.prev_gemini_result)
        result == process_region(after_gemini, flow, self.veo_pos,
                                 self.prev_veo_result)
    IN  IF self.prev_gray = None
        THEN [path |-> "first", mid |-> current_result, out |-> current_result,
              self |-> update_state(counted, curr_gray, current_result)]
        ELSE IF ShapeMismatch(self.prev_gray, original_frame)
        THEN [path |-> "cv2_error", mid |-> None, out |-> None, self |-> counted]
        ELSE IF detect_scene_cut(flow, original_frame.h, original_frame.w)
        THEN [path |-> "scene_cut", mid |-> current_result, out |-> current_result,
              self |-> update_state(counted, curr_gray, current_result)]
        ELSE [path |-> "smoothed", mid |-> after_gemini, out |-> result,
              self |-> update_state(counted, curr_gray, result)]

\* the effect of one process_frame call on the session
Called(original_frame, current_result, flow) ==
    \E r \in {process_frame(Self, original_frame, current_result, flow)} :
    /\ prev_gray' = r.self.prev_gray
    /\ prev_gemini_result' = r.self.prev_gemini_result
    /\ prev_veo_result' = r.self.prev_veo_result
    /\ frame_count' = r.self.frame_count
    /\ tcall' = [op |-> "process_frame", path |-> r.path,
                 original |-> original_frame, candidate |-> current_result,
                 flow |-> flow, pre |-> Self, mid |-> r.mid, out |-> r.out]
    /\ UNCHANGED <<gemini_pos, veo_pos>>

\* process_frame on a session with nothing stored (no flow is computed)
ProcessFirstFrame ==
    /\ frame_count < MaxFrames
    /\ prev_gray = None
    /\ \E original_frame \in OriginalFrames, current_result \in CandidateFrames :
         Called(original_frame, current_result,
                FlowOf("zero", gemini_pos, veo_pos))

\* process_frame on a session with a previous frame stored
ProcessNextFrame ==
    /\ frame_count < MaxFrames
    /\ prev_gray # None
    /\ \E original_frame \in OriginalFrames, current_result \in CandidateFrames,
          kind \in FlowKinds :
         Called(original_frame, current_result,
                FlowOf(kind, gemini_pos, veo_pos))

\* TemporalProcessor.reset
Reset ==
    /\ prev_gray' = None
    /\ prev_gemini_result' = None
    /\ prev_veo_result' = None
    /\ frame_count' = 0
    /\ tcall' = [op |-> "reset", pre |-> Self]
    /\ UNCHANGED <<gemini_pos, veo_pos>>

TemporalNext ==
    \/ ProcessFirstFrame /\ UNCHANGED <<rtVars, frameVars, posVars, detVars, cacheVars, sessVars, plVars>>
    \/ ProcessNextFrame /\ UNCHANGED <<rtVars, frameVars, posVars, detVars, cacheVars, sessVars, plVars>>
    \/ Reset /\ UNCHANGED <<rtVars, frameVars, posVars, detVars, cacheVars, sessVars, plVars>>

RtInit ==
    /\ rt_pc = "start"
    /\ rt_alpha \in Bytes
    /\ rt_o \in Bytes
    /\ rt_w = 0
    /\ rt_r = 0
    /\ rt_den = 0

\* the compositor paints the watermark over the original value
RtBlend ==
    /\ rt_pc = "start"
    /\ rt_w' = ForwardBlend(rt_o, ClampedAlphaNum(rt_alpha))
    /\ rt_pc' = "blended"
    /\ UNCHANGED <<rt_alpha, rt_o, rt_r, rt_den>>

\* remove_watermark on the painted value (the pixel is under np.where's mask
\* when its alpha is significant, else it keeps the region's value)
RtRestore ==
    /\ rt_pc = "blended"
    /\ rt_r' = IF AlphaMask(rt_alpha)
               THEN RestoreChannel(rt_w, ClampedAlphaNum(rt_alpha))
               ELSE rt_w
    /\ rt_den' = ALPHA_DEN - ClampedAlphaNum(rt_alpha)
    /\ rt_pc' = "restored"
    /\ UNCHANGED <<rt_alpha, rt_o, rt_w>>

RtNext ==
    \/ RtBlend /\ UNCHANGED <<frameVars, temporalVars, posVars, detVars, cacheVars, sessVars, plVars>>
    \/ RtRestore /\ UNCHANGED <<frameVars, temporalVars, posVars, detVars, cacheVars, sessVars, plVars>>

(***************************************************************************)
(* Claims about the blend formula (SpecRoundTrip).                         *)
(***************************************************************************)
\* C1 as stated: for every opacity in [0, 0.99] and every 8-bit original o,
\* the forward blend followed by remove_watermark's inverse, clamped and
\* converted to 8 bits, differs from o by at most 1.
C1_RoundTripAnyAlpha ==
    rt_pc = "restored" => Abs(rt_r - rt_o) <= 1

\* C1 amended: the same, for every opacity in [0, 0.5], the watermarked value
\* being held as an 8-bit value rounded to nearest.
C1_RoundTripHalfAlpha ==
    ( rt_pc = "restored" /\ 2 * ClampedAlphaNum(rt_alpha) <= ALPHA_DEN )
    => Abs(rt_r - rt_o) <= 1

\* a painted value the inverse changes back to within 1 of the original
C1_Witness ==
    /\ rt_pc = "restored"
    /\ 2 * ClampedAlphaNum(rt_alpha) <= ALPHA_DEN
    /\ AlphaMask(rt_alpha)
    /\ rt_w # rt_o
    /\ rt_r # rt_w
    /\ rt_r = rt_o - 1

\* C18: every opacity is clamped to at most 0.99 before it is used as a
\* divisor, so for any alpha map value in [0,1], 1.0 included, the divisor
\* 1 - alpha of remove_watermark is at least 0.01 and never zero.
C18_DivisorAtLeastHundredth ==
    rt_pc = "restored" => ( rt_den > 0 /\ 100 * rt_den >= ALPHA_DEN )

\* a cell of opacity 1.0 (byte 255) went through the division
C18_Witness ==
    /\ rt_pc = "restored"
    /\ rt_alpha = 255
    /\ 100 * rt_den = ALPHA_DEN
    /\ rt_r # rt_w

(***************************************************************************)
(* Claims about the temporal engine (SpecTemporal).                        *)
(***************************************************************************)
\* whether a region's origin lies inside a frame (the test of _update_state)
OriginInside(img, pos) ==
    0 <= pos.x /\ pos.x < img.w /\ 0 <= pos.y /\ pos.y < img.h

\* crop holds the pixels of frame under the part of the box inside the frame,
\* and is unset when the box's origin is outside the frame
IsBaselineOf(crop, frame, pos) ==
    IF OriginInside(frame, pos)
    THEN /\ crop # None
         /\ \A rc \in DOMAIN frame.px :
               InBox(rc, pos) =>
                   /\ <<rc[1] - pos.y, rc[2] - pos.x>> \in DOMAIN crop.px
                   /\ crop.px[<<rc[1] - pos.y, rc[2] - pos.x>>] = frame.px[rc]
    ELSE crop = None

\* the session's baseline is the given frame pair
BaselineIs(original, frame) ==
    /\ prev_gray # None
    /\ prev_gray.h = original.h /\ prev_gray.w = original.w
    /\ \A rc \in DOMAIN original.px : prev_gray.px[rc] = RGB2GRAY(original.px[rc])
    /\ IsBaselineOf(prev_gemini_result, frame, gemini_pos)
    /\ IsBaselineOf(prev_veo_result, frame, veo_pos)

\* C5: in the Uninitialized state the next process_frame call returns its
\* candidate unchanged, stores the current grayscale and the region crops of
\* the candidate as baseline and leaves the engine in Tracking; reset() clears
\* the previous grayscale and both crops whatever state it is called in.
C5_FirstFrameAndReset ==
    /\ ( tcall.op = "process_frame" /\ tcall.pre.prev_gray = None )
       => ( /\ tcall.out = tcall.candidate
            /\ BaselineIs(tcall.original, tcall.candidate) )
    /\ tcall.op = "reset"
       => ( prev_gray = None /\ prev_gemini_result = None
            /\ prev_veo_result = None )

\* a first frame whose two crops are stored
C5_Witness ==
    /\ tcall.op = "process_frame"
    /\ tcall.pre.prev_gray = None
    /\ tcall.out = tcall.candidate
    /\ prev_gray # None
    /\ prev_gemini_result # None
    /\ prev_veo_result # None

\* a reset of a session that was tracking
C5_ResetReached ==
    /\ tcall.op = "reset"
    /\ tcall.pre.prev_gray # None
    /\ tcall.pre.prev_gemini_result # None
    /\ prev_gray = None

\* the scene-cut classification: frame-wide mean magnitude above 30, or some
\* pixel's magnitude above 100
IsSceneCutFlow(flow, h, w) ==
    \/ SumFun([k \in 0..(h * w - 1) |-> Magnitude(flow[<<k \div w, k % w>>])], h * w)
         > 30 * h * w
    \/ \E c \in Coords(h, w) : Magnitude(flow[c]) > 100

\* C6: a frame classified as a scene cut in Tracking is returned unmodified in
\* every pixel, and the baseline becomes the current frame's grayscale and the
\* candidate's region crops.
C6_SceneCutReturnsCandidate ==
    ( /\ tcall.op = "process_frame"
      /\ tcall.pre.prev_gray # None
      /\ IsSceneCutFlow(tcall.flow, tcall.original.h, tcall.original.w) )
    => ( /\ tcall.out = tcall.candidate
         /\ BaselineIs(tcall.original, tcall.candidate) )

\* a cut found by one pixel above the ceiling only, over a stored baseline that
\* differs from the candidate
C6_Witness ==
    /\ tcall.op = "process_frame"
    /\ tcall.pre.prev_gray # None
    /\ IsSceneCutFlow(tcall.flow, tcall.original.h, tcall.original.w)
    /\ ~MeanMagnitudeExceeds(tcall.flow, tcall.original.h, tcall.original.w,
                             SCENE_CUT_THRESHOLD)
    /\ tcall.pre.prev_gemini_result # None
    /\ tcall.pre.prev_gemini_result # prev_gemini_result
    /\ tcall.out = tcall.candidate

\* C7 as stated: after a process_frame call that detected a scene cut the
\* engine is Uninitialized (no previous grayscale stored).
C7_SceneCutUninitializes ==
    ( tcall.op = "process_frame" /\ tcall.path = "scene_cut" )
    => prev_gray = None

\* C7 amended: after a process_frame call that detected a scene cut the engine
\* is still Tracking, its baseline being the cut frame; only reset() leaves it
\* Uninitialized, and only an Uninitialized engine handles a frame as the first.
C7_SceneCutKeepsTracking ==
    /\ ( tcall.op = "process_frame" /\ tcall.path = "scene_cut" )
       => ( prev_gray # None /\ BaselineIs(tcall.original, tcall.candidate) )
    /\ ( tcall.op = "process_frame" /\ tcall.path = "first" )
       => tcall.pre.prev_gray = None
    /\ tcall.op = "reset" => prev_gray = None

\* a detected scene cut
C7_Witness ==
    /\ tcall.op = "process_frame"
    /\ tcall.path = "scene_cut"
    /\ tcall.pre.prev_gray # None
    /\ prev_gray # None

\* C8 as stated: the previous grayscale and the two previous crops are all
\* unset or all set together.
C8_AllOrNone ==
    \/ ( prev_gray = None /\ prev_gemini_result = None /\ prev_veo_result = None )
    \/ ( prev_gray # None /\ prev_gemini_result # None /\ prev_veo_result # None )

\* C8 amended: the crops are unset whenever the previous grayscale is; when it
\* is set, the crop of a region is set exactly when the region's origin lies
\* inside the last frame.
C8_CropsFollowGray ==
    /\ prev_gray = None => ( prev_gemini_result = None /\ prev_veo_result = None )
    /\ prev_gray # None =>
          /\ (prev_gemini_result # None) = OriginInside(prev_gray, gemini_pos)
          /\ (prev_veo_result # None) = OriginInside(prev_gray, veo_pos)

\* a tracking session with one crop unset and one set, and one with a crop of
\* a box that sticks out of the frame
C8_Witness ==
    /\ prev_gray # None
    /\ prev_gemini_result = None
    /\ prev_veo_result # None

C8_PartialCropReached ==
    /\ prev_gray # None
    /\ prev_veo_result # None
    /\ OutOfBounds(prev_gray, veo_pos)

\* every channel of the box of frame is within CHANGE_CLAMP_THRESHOLD of the
\* warped previous crop
WithinClampOf(frame, pos, warped_prev) ==
    \A c \in Coords(pos.height, pos.width) : \A k \in 1..3 :
        Abs(frame.px[<<pos.y + c[1], pos.x + c[2]>>][k] - warped_prev[c][k]) <= 50

\* C9: in every region process_frame smooths, each written pixel channel
\* differs from the warped-previous value by at most 50, however far the
\* candidate is from the warped-previous crop.  (tcall.mid is the frame after
\* the blend-type region's pass, tcall.out after the overlay-type region's.)
C9_TemporalClamp ==
    ( tcall.op = "process_frame" /\ tcall.path = "smoothed" ) =>
        /\ RegionSmoothed(tcall.candidate, tcall.flow, gemini_pos,
                          tcall.pre.prev_gemini_result)
           => WithinClampOf(tcall.mid, gemini_pos,
                            warp_region(tcall.pre.prev_gemini_result,
                                        FlowRegion(tcall.flow, gemini_pos)))
        /\ RegionSmoothed(tcall.mid, tcall.flow, veo_pos, tcall.pre.prev_veo_result)
           => WithinClampOf(tcall.out, veo_pos,
                            warp_region(tcall.pre.prev_veo_result,
                                        FlowRegion(tcall.flow, veo_pos)))

\* a smoothed overlay-type region with a channel whose blend was more than 50
\* away from the warped-previous value and was written exactly 50 away
C9_Witness ==
    /\ tcall.op = "process_frame"
    /\ tcall.path = "smoothed"
    /\ RegionSmoothed(tcall.mid, tcall.flow, veo_pos, tcall.pre.prev_veo_result)
    /\ \E c \in Coords(veo_pos.height, veo_pos.width) : \E k \in 1..3 :
          LET rc == <<veo_pos.y + c[1], veo_pos.x + c[2]>>
              p == warp_region(tcall.pre.prev_veo_result,
                               FlowRegion(tcall.flow, veo_pos))[c][k]
          IN  /\ Abs(7 * tcall.mid.px[rc][k] + 3 * p - 10 * p) > 500
              /\ Abs(tcall.out.px[rc][k] - p) = 50

ZeroFlow(flow) == \A c \in DOMAIN flow : flow[c] = <<0, 0>>

\* the box of out holds 0.7 x candidate + 0.3 x previous crop (to within the
\* 8-bit conversion) wherever that blend is within 50 of the previous value
HoldsBlendOf(out, candidate, pos, prev_crop) ==
    \A c \in Coords(pos.height, pos.width) : \A k \in 1..3 :
        LET rc == <<pos.y + c[1], pos.x + c[2]>>
            blend10 == 7 * candidate.px[rc][k] + 3 * prev_crop.px[c][k]
        IN  Abs(blend10 - 10 * prev_crop.px[c][k]) <= 500
            => Abs(10 * out.px[rc][k] - blend10) < 10

\* what C10 says of one process_frame call with an all-zero flow field
ZeroFlowBlend ==
    /\ \A reg \in {<<gemini_pos, tcall.pre.prev_gemini_result>>,
                   <<veo_pos, tcall.pre.prev_veo_result>>} :
          ( reg[2] # None /\ ~OutOfBounds(tcall.candidate, reg[1]) )
          => HoldsBlendOf(tcall.out, tcall.candidate, reg[1], reg[2])
    /\ \A rc \in DOMAIN tcall.candidate.px :
          ( ~InBox(rc, gemini_pos) /\ ~InBox(rc, veo_pos) )
          => tcall.out.px[rc] = tcall.candidate.px[rc]

\* C10: with an all-zero flow field in Tracking, process_frame writes into
\* each tracked in-bounds region 0.7 x candidate + 0.3 x previous stored crop
\* per pixel channel (to within 8-bit conversion) whenever that blend is within
\* 50 of the previous value, and leaves every pixel outside the two regions
\* equal to the candidate.
C10_ZeroFlowBlend ==
    ( /\ tcall.op = "process_frame"
      /\ tcall.path = "smoothed"
      /\ ZeroFlow(tcall.flow) )
    => ZeroFlowBlend

BoxesDisjoint(a, b) == \A rc \in Coords(TemporalH, TemporalW) : ~(InBox(rc, a) /\ InBox(rc, b))

\* the same for sessions whose two boxes share no pixel
C10_ZeroFlowBlendOfDisjointBoxes ==
    ( /\ tcall.op = "process_frame"
      /\ tcall.path = "smoothed"
      /\ ZeroFlow(tcall.flow)
      /\ BoxesDisjoint(gemini_pos, veo_pos) )
    => ZeroFlowBlend

\* a zero-flow call that smoothed both regions of a session with disjoint
\* boxes and changed the candidate
C10_DisjointReached ==
    /\ tcall.op = "process_frame"
    /\ tcall.path = "smoothed"
    /\ ZeroFlow(tcall.flow)
    /\ BoxesDisjoint(gemini_pos, veo_pos)
    /\ tcall.mid # tcall.candidate
    /\ tcall.out # tcall.mid

DetIdle ==
    /\ det_pc = "off"
    /\ det_region = None
    /\ det_alpha = None
    /\ det_result = FALSE

SessIdle == session_pc = "off"

PlIdle ==
    /\ pl_kind = "off"
    /\ pl_pc = "off"
    /\ pl_n = 0
    /\ pl_i = 0
    /\ pl_frame = None
    /\ pl_original = None
    /\ pl_engines = 0
    /\ pl_trace = << >>

\* no thread runs: the import-time state of core/alpha_map.py
CacheIdle ==
    /\ alpha_map_cache = << >>
    /\ heap = << >>
    /\ loads = << >>
    /\ th_pc = << >>
    /\ th_size = << >>
    /\ th_obj = << >>
    /\ th_ret = << >>

(***************************************************************************)
(* core/position.py: the two position calculators, with the constants of   *)
(* core/__init__.py.  The ratios 0.025 and 0.015 are kept in thousandths;  *)
(* int(width * 0.025) is floor(25 * width / 1000) for every width up to    *)
(* 100000 in double precision, likewise int(height * 0.015).               *)
(***************************************************************************)
LARGE_IMAGE_THRESHOLD == 1024
SMALL_WATERMARK_SIZE == 48
LARGE_WATERMARK_SIZE == 96
SMALL_MARGIN == 32
LARGE_MARGIN == 64
VEO_WATERMARK_WIDTH == 100
VEO_WATERMARK_HEIGHT == 45
VEO_MARGIN_X_RATIO_MILLI == 25
VEO_MARGIN_Y_RATIO_MILLI == 15
VEO_MIN_MARGIN_X == 15
VEO_MIN_MARGIN_Y == 15

\* a calculator whose "large" test includes the threshold itself
calculate_watermark_position_inclusive(image_width, image_height) ==
    LET is_large == \/ image_width >= LARGE_IMAGE_THRESHOLD
                    \/ image_height >= LARGE_IMAGE_THRESHOLD
        size == IF is_large THEN LARGE_WATERMARK_SIZE ELSE SMALL_WATERMARK_SIZE
        margin == IF is_large THEN LARGE_MARGIN ELSE SMALL_MARGIN
    IN  [x |-> image_width - margin - size, y |-> image_height - margin - size,
         width |-> size, height |-> size, size |-> size]
calculate_watermark_position(image_width, image_height) ==
    LET is_large == \/ image_width > LARGE_IMAGE_THRESHOLD
                    \/ image_height > LARGE_IMAGE_THRESHOLD
        size == IF is_large THEN LARGE_WATERMARK_SIZE ELSE SMALL_WATERMARK_SIZE
        margin == IF is_large THEN LARGE_MARGIN ELSE SMALL_MARGIN
    IN  [x |-> image_width - margin - size, y |-> image_height - margin - size,
         width |-> size, height |-> size, size |-> size]

\* int(v) of the non-negative rational num / den
IntOf(num, den) == FloorDiv(num, den)

\* a calculator that rounds the ratio margins half up instead of truncating
calculate_veo_watermark_position_rounded(w, h) ==
    LET width == VEO_WATERMARK_WIDTH
        height == VEO_WATERMARK_HEIGHT
        margin_x == Max(VEO_MIN_MARGIN_X,
                        FloorDiv(2 * w * VEO_MARGIN_X_RATIO_MILLI + 1000, 2000))
        margin_y == Max(VEO_MIN_MARGIN_Y,
                        FloorDiv(2 * h * VEO_MARGIN_Y_RATIO_MILLI + 1000, 2000))
        x0 == Max(0, w - margin_x - width)
        y0 == Max(0, h - margin_y - height)
    IN  [x |-> IF x0 + width > w THEN w - width ELSE x0,
         y |-> IF y0 + height > h THEN h - height ELSE y0,
         width |-> width, height |-> height]
calculate_veo_watermark_position(vw, vh) ==
    LET width == VEO_WATERMARK_WIDTH
        height == VEO_WATERMARK_HEIGHT
        margin_x == Max(VEO_MIN_MARGIN_X,
                        IntOf(vw * VEO_MARGIN_X_RATIO_MILLI, 1000))
        margin_y == Max(VEO_MIN_MARGIN_Y,
                        IntOf(vh * VEO_MARGIN_Y_RATIO_MILLI, 1000))
        x0 == Max(0, vw - margin_x - width)
        y0 == Max(0, vh - margin_y - height)
    IN  [x |-> IF x0 + width > vw THEN vw - width ELSE x0,
         y |-> IF y0 + height > vh THEN vh - height ELSE y0,
         width |-> width, height |-> height]

\* frame sizes: every size within DimWindow of a size where a rule changes
DimWindow == 2
WidthAnchors == {3, 50, 100, 115, 600, 620, 640, 1024, 1280, 1920, 3840}
HeightAnchors == {3, 30, 45, 60, 720, 1000, 1024, 1034, 1080, 2160}
Near(anchors) ==
    {v \in UNION {(a - DimWindow)..(a + DimWindow) : a \in anchors} : v > 0}

PosInit ==
    /\ pos_pc = "input"
    /\ video_width \in Near(WidthAnchors)
    /\ video_height \in Near(HeightAnchors)
    /\ pos_gemini = None
    /\ pos_veo = None

PosIdle ==
    /\ pos_pc = "off"
    /\ video_width = 0
    /\ video_height = 0
    /\ pos_gemini = None
    /\ pos_veo = None

\* process_video: gemini_pos = calculate_watermark_position(width, height)
CalculateWatermarkPosition ==
    /\ pos_pc = "input"
    /\ pos_gemini' = calculate_watermark_position(video_width, video_height)
    /\ pos_pc' = "gemini_done"
    /\ UNCHANGED <<video_width, video_height, pos_veo>>

\* process_video: veo_pos = calculate_veo_watermark_position(width, height)
CalculateVeoWatermarkPosition ==
    /\ pos_pc = "gemini_done"
    /\ pos_veo' = calculate_veo_watermark_position(video_width, video_height)
    /\ pos_pc' = "veo_done"
    /\ UNCHANGED <<video_width, video_height, pos_gemini>>

PosNext ==
    \/ CalculateWatermarkPosition
         /\ UNCHANGED <<rtVars, frameVars, temporalVars, detVars, cacheVars, sessVars, plVars>>
    \/ CalculateVeoWatermarkPosition
         /\ UNCHANGED <<rtVars, frameVars, temporalVars, detVars, cacheVars, sessVars, plVars>>

(***************************************************************************)
(* Claims about the position calculators (SpecPosition).                   *)
(***************************************************************************)
\* C11: for every frame size the blend-type box has size 96 and margin 64
\* when width > 1024 or height > 1024, else size 48 and margin 32, with
\* x = width - margin - size, y = height - margin - size and width = height
\* = size; (1024,1024) is small and (1025,1024) is large.
C11_BlendBoxRule ==
    pos_pc # "input" =>
        LET isLarge == video_width > 1024 \/ video_height > 1024
            size == IF isLarge THEN 96 ELSE 48
            margin == IF isLarge THEN 64 ELSE 32
        IN  /\ pos_gemini.size = size
            /\ pos_gemini.width = size
            /\ pos_gemini.height = size
            /\ pos_gemini.x = video_width - margin - size
            /\ pos_gemini.y = video_height - margin - size
            /\ (video_width = 1024 /\ video_height = 1024) => pos_gemini.size = 48
            /\ (video_width = 1025 /\ video_height = 1024) => pos_gemini.size = 96

\* the first size on the large side of the boundary
C11_Witness ==
    /\ pos_pc # "input"
    /\ video_width = 1025
    /\ video_height = 1024
    /\ pos_gemini.size = 96
    /\ pos_gemini.x = 1025 - 64 - 96

\* m = max(floor15, r) for r an integer nearest to num / den
IsMaxOfNearest(m, least, num, den) ==
    \E r \in {FloorDiv(num, den), FloorDiv(num, den) + 1} :
        /\ 2 * Abs(r * den - num) <= den
        /\ m = Max(least, r)

\* C12 as stated: marginX = max(15, round(width * 0.025)), marginY =
\* max(15, round(height * 0.015)), and when the box fits the frame
\* x = width - marginX - 100, y = height - marginY - 45, the box being
\* 100 wide and 45 high.
C12_MarginsRounded ==
    pos_pc = "veo_done" =>
        /\ pos_veo.width = 100
        /\ pos_veo.height = 45
        /\ pos_veo.x >= 0 /\ pos_veo.x + 100 + 15 <= video_width
             => IsMaxOfNearest(video_width - 100 - pos_veo.x, 15,
                               video_width * 25, 1000)
        /\ pos_veo.y >= 0 /\ pos_veo.y + 45 + 15 <= video_height
             => IsMaxOfNearest(video_height - 45 - pos_veo.y, 15,
                               video_height * 15, 1000)

\* C12 amended: marginX = max(15, floor(width * 0.025)), marginY =
\* max(15, floor(height * 0.015)), and when width >= marginX + 100 the box
\* has x = width - marginX - 100, when height >= marginY + 45 it has
\* y = height - marginY - 45; the box is 100 wide and 45 high.
C12_MarginsTruncated ==
    pos_pc = "veo_done" =>
        LET marginX == Max(15, (video_width * 25) \div 1000)
            marginY == Max(15, (video_height * 15) \div 1000)
        IN  /\ pos_veo.width = 100
            /\ pos_veo.height = 45
            /\ video_width >= marginX + 100
                 => pos_veo.x = video_width - marginX - 100
            /\ video_height >= marginY + 45
                 => pos_veo.y = video_height - marginY - 45

\* a frame whose ratio margins are above the floor of 15 and not whole:
\* 1920 * 0.025 = 48, 1080 * 0.015 = 16.2; and one where rounding and
\* truncation part: 620 * 0.025 = 15.5
C12_Witness ==
    /\ pos_pc = "veo_done"
    /\ video_width = 1920
    /\ video_height = 1080
    /\ pos_veo.x = 1920 - 48 - 100
    /\ pos_veo.y = 1080 - 16 - 45

C12_TruncationReached ==
    /\ pos_pc = "veo_done"
    /\ video_width = 620
    /\ pos_veo.x = 620 - 15 - 100

\* C13: for every positive frame size, frames narrower than 100 or shorter
\* than 45 included, the overlay-type box has x >= 0 and y >= 0; for every
\* frame at least 100 wide and 45 high, x + 100 <= width and y + 45 <= height.
C13_OverlayBoxClamped ==
    pos_pc = "veo_done" =>
        /\ pos_veo.x >= 0
        /\ pos_veo.y >= 0
        /\ (video_width >= 100 /\ video_height >= 45)
             => /\ pos_veo.x + 100 <= video_width
                /\ pos_veo.y + 45 <= video_height

\* the part of C13 that holds: a frame that can hold the box holds it
C13_FittingFramesHoldBox ==
    ( pos_pc = "veo_done" /\ video_width >= 100 /\ video_height >= 45 )
    => /\ pos_veo.x >= 0 /\ pos_veo.x + 100 <= video_width
       /\ pos_veo.y >= 0 /\ pos_veo.y + 45 <= video_height

\* a frame narrower than the box: the second clamp undoes the floor at 0
C13_NarrowFrameReached ==
    /\ pos_pc = "veo_done"
    /\ video_width = 50
    /\ pos_veo.x = -50

(***************************************************************************)
(* detect_gemini_watermark on its own: regions of DetN pixels in one row   *)
(* under every alpha map over DetAlphaBytes (the detector only uses masks  *)
(* and means, never the shape of the region).                              *)
(***************************************************************************)
DetN == 3
DetPixels == {<<60, 90, 120>>, <<90, 90, 90>>, <<106, 106, 106>>,
              <<114, 114, 114>>, <<180, 180, 180>>}
DetAlphaBytes == {0, 40, 128}
DetCells == Coords(1, DetN)

DetInit ==
    /\ det_pc = "start"
    /\ det_region \in [DetCells -> DetPixels]
    /\ det_alpha \in [DetCells -> DetAlphaBytes]
    /\ det_result = FALSE

\* remove_watermark line 93: detect_gemini_watermark(region, alpha)
Detect ==
    /\ det_pc = "start"
    /\ det_result' = detect_gemini_watermark(
                        det_region,
                        [c \in DetCells |-> ClampedAlphaNum(det_alpha[c])],
                        1, DetN)
    /\ det_pc' = "done"
    /\ UNCHANGED <<det_region, det_alpha>>

DetNext ==
    Detect /\ UNCHANGED <<rtVars, frameVars, temporalVars, posVars, cacheVars, sessVars, plVars>>

(***************************************************************************)
(* Claims about the presence detector (SpecDetect).  Opacity is byte/255,  *)
(* brightness the channel mean; the sums below are over the cells of the   *)
(* high (>= 0.1), low (< 0.05) and very high (>= 0.5) opacity sets.        *)
(***************************************************************************)
HighSet == {c \in DetCells : 10 * det_alpha[c] >= 255}
LowSet == {c \in DetCells : 20 * det_alpha[c] < 255}
VeryHighSet == {c \in DetCells : 2 * det_alpha[c] >= 255}

RECURSIVE SumOver(_, _)
SumOver(S, f) ==
    IF S = {} THEN 0
    ELSE LET c == CHOOSE c \in S : TRUE IN f[c] + SumOver(S \ {c}, f)

\* three times the brightness of each pixel
Brightness3 == [c \in DetCells |-> det_region[c][1] + det_region[c][2] + det_region[c][3]]

\* diff < meanOpacity(high) * 255 * tenths / 10, with
\* diff = mean brightness(high) - mean brightness(low)
ContrastBelow(tenths) ==
    LET nH == Cardinality(HighSet)
        nL == Cardinality(LowSet)
    IN  10 * (SumOver(HighSet, Brightness3) * nL - SumOver(LowSet, Brightness3) * nH)
          < 3 * tenths * SumOver(HighSet, det_alpha) * nL

\* mean brightness(very high) < 0.7 * (mean brightness(low) * (1 - a) + 255 * a)
\* with a = meanOpacity(very high)
WhitenessBelowExpected ==
    LET nV == Cardinality(VeryHighSet)
        nL == Cardinality(LowSet)
        AV == SumOver(VeryHighSet, det_alpha)
    IN  10 * 255 * SumOver(VeryHighSet, Brightness3) * nL
          < 7 * (SumOver(LowSet, Brightness3) * (255 * nV - AV) + 3 * 255 * AV * nL)

UniformBrightness ==
    \A c1, c2 \in DetCells : Brightness3[c1] = Brightness3[c2]

\* C14: the detector reports not present for every region whose pixels all
\* have the same brightness, under every alpha map, whether or not its high
\* and low opacity sets are both non-empty.
C14_UniformRegionNotPresent ==
    ( det_pc = "done" /\ UniformBrightness ) => det_result = FALSE

\* a uniform region of two colours under a map with both sets non-empty
C14_Witness ==
    /\ det_pc = "done"
    /\ UniformBrightness
    /\ \E c1, c2 \in DetCells : det_region[c1] # det_region[c2]
    /\ HighSet # {}
    /\ LowSet # {}
    /\ det_result = FALSE

\* C15 as stated: with expectedDiff = meanOpacity(high) * 255 * 0.7, the
\* detector reports not present whenever diff < expectedDiff.
C15_ContrastSevenTenths ==
    ( det_pc = "done" /\ HighSet # {} /\ LowSet # {} /\ ContrastBelow(7) )
    => det_result = FALSE

\* C15 amended: with expectedDiff = meanOpacity(high) * 255 * 0.5, the
\* detector reports not present whenever diff < expectedDiff.
C15_ContrastHalf ==
    ( det_pc = "done" /\ HighSet # {} /\ LowSet # {} /\ ContrastBelow(5) )
    => det_result = FALSE

\* a region with some contrast, but less than half the theoretical one
C15_Witness ==
    /\ det_pc = "done"
    /\ HighSet # {} /\ LowSet # {}
    /\ ~UniformBrightness
    /\ ContrastBelow(5)
    /\ VeryHighSet = {}
    /\ det_result = FALSE

\* a region between half and seven tenths of the theoretical contrast
C15_BetweenReached ==
    /\ det_pc = "done"
    /\ HighSet # {} /\ LowSet # {}
    /\ ContrastBelow(7) /\ ~ContrastBelow(5)
    /\ det_result = TRUE

\* C16 as stated: when the very-high set is non-empty the detector reports
\* not present whenever the mean brightness under it is below 220, and it
\* reports present only if that check passes.
C16_WhitenessAbove220 ==
    ( det_pc = "done" /\ VeryHighSet # {}
      /\ SumOver(VeryHighSet, Brightness3) < 3 * 220 * Cardinality(VeryHighSet) )
    => det_result = FALSE

\* C16 amended: when the very-high set is non-empty the detector reports
\* not present whenever the mean brightness under it is below 0.7 times
\* meanLow * (1 - a) + 255 * a, a the mean opacity of that set; it reports
\* present exactly when both sets are non-empty, the contrast check (at one
\* half) passes and this check passes or the very-high set is empty.
C16_WhitenessOfExpected ==
    det_pc = "done" =>
        /\ (VeryHighSet # {} /\ LowSet # {} /\ WhitenessBelowExpected)
             => det_result = FALSE
        /\ det_result = TRUE
             <=> /\ HighSet # {} /\ LowSet # {}
                 /\ ~ContrastBelow(5)
                 /\ VeryHighSet = {} \/ ~WhitenessBelowExpected

\* a region that passes the contrast check and fails the whiteness check
C16_Witness ==
    /\ det_pc = "done"
    /\ HighSet # {} /\ LowSet # {} /\ VeryHighSet # {}
    /\ ~ContrastBelow(5)
    /\ WhitenessBelowExpected
    /\ det_result = FALSE

\* a region reported present whose very-high cells are darker than 220
C16_DarkPresentReached ==
    /\ det_pc = "done"
    /\ VeryHighSet # {}
    /\ SumOver(VeryHighSet, Brightness3) < 3 * 220 * Cardinality(VeryHighSet)
    /\ det_result = TRUE

(***************************************************************************)
(* core/alpha_map.py: the module-level dict _alpha_map_cache, shared by    *)
(* every thread of the process, and the callers of get_alpha_map, which    *)
(* hand the returned array to remove_watermark.  Arrays are objects:       *)
(* heap[id] is the content of array id, ids 1, 2, ... in order of          *)
(* creation by load_alpha_map; heap[0] is the array bound to the local     *)
(* name alpha inside remove_watermark.  A thread can be preempted between  *)
(* the lines (and inside load_alpha_map, which reads a file).              *)
(***************************************************************************)
NumThreads == 2
Threads == 1..NumThreads
Sizes == {SMALL_WATERMARK_SIZE, LARGE_WATERMARK_SIZE}

\* max(R, G, B) of the pixels of the reference image bg_{size}.png
AssetBytes(size) ==
    IF size = SMALL_WATERMARK_SIZE THEN <<0, 128, 255>> ELSE <<0, 64, 255, 255>>

\* load_alpha_map(size): the float32 grid of byte / 255.0
load_alpha_map(size) ==
    [i \in DOMAIN AssetBytes(size) |-> RawAlphaNum(AssetBytes(size)[i])]

\* np.clip(alpha, 0, MAX_ALPHA) of a whole grid
ClipGrid(grid) ==
    [i \in DOMAIN grid |-> Clip(grid[i], 0, (MAX_ALPHA_PCT * ALPHA_DEN) \div 100)]

\* a clamp done in place on the array that was passed in
ClipDestinationInPlace(alpha_map_id) == alpha_map_id
\* remove_watermark lines 86 and 90: alpha = alpha_map.copy() and
\* alpha = np.clip(alpha, ...) both bind the local name alpha to a new array
ClipDestination(alpha_map_id) == 0

CacheInit ==
    /\ alpha_map_cache = << >>
    /\ heap = [id \in {0} |-> << >>]
    /\ loads = [s \in Sizes |-> 0]
    /\ th_pc = [t \in Threads |-> "idle"]
    /\ th_size = [t \in Threads |-> 0]
    /\ th_obj = [t \in Threads |-> 0]
    /\ th_ret = [t \in Threads |-> 0]

\* a thread calls get_alpha_map(size)
CallGetAlphaMap(t) ==
    /\ th_pc[t] = "idle"
    /\ \E size \in Sizes : th_size' = [th_size EXCEPT ![t] = size]
    /\ th_pc' = [th_pc EXCEPT ![t] = "line40"]
    /\ th_ret' = [th_ret EXCEPT ![t] = 0]
    /\ UNCHANGED <<alpha_map_cache, heap, loads, th_obj>>

\* line 40: if size not in _alpha_map_cache
TestCache(t) ==
    /\ th_pc[t] = "line40"
    /\ th_pc' = [th_pc EXCEPT ![t] =
                    IF th_size[t] \in DOMAIN alpha_map_cache
                    THEN "line42" ELSE "line41_load"]
    /\ UNCHANGED <<alpha_map_cache, heap, loads, th_size, th_obj, th_ret>>

\* line 41, right-hand side: load_alpha_map(size) builds a new array
LoadAlphaMap(t) ==
    /\ th_pc[t] = "line41_load"
    /\ LET id == Cardinality(DOMAIN heap)
       IN  /\ heap' = [i \in DOMAIN heap \cup {id} |->
                          IF i = id THEN load_alpha_map(th_size[t]) ELSE heap[i]]
           /\ th_obj' = [th_obj EXCEPT ![t] = id]
    /\ loads' = [loads EXCEPT ![th_size[t]] = @ + 1]
    /\ th_pc' = [th_pc EXCEPT ![t] = "line41_store"]
    /\ UNCHANGED <<alpha_map_cache, th_size, th_ret>>

\* line 41, the assignment: _alpha_map_cache[size] = ...
StoreAlphaMap(t) ==
    /\ th_pc[t] = "line41_store"
    /\ alpha_map_cache' =
          [s \in DOMAIN alpha_map_cache \cup {th_size[t]} |->
              IF s = th_size[t] THEN th_obj[t] ELSE alpha_map_cache[s]]
    /\ th_pc' = [th_pc EXCEPT ![t] = "line42"]
    /\ UNCHANGED <<heap, loads, th_size, th_obj, th_ret>>

\* line 42: return _alpha_map_cache[size]
ReturnAlphaMap(t) ==
    /\ th_pc[t] = "line42"
    /\ th_ret' = [th_ret EXCEPT ![t] = alpha_map_cache[th_size[t]]]
    /\ th_pc' = [th_pc EXCEPT ![t] = "returned"]
    /\ UNCHANGED <<alpha_map_cache, heap, loads, th_size, th_obj>>

\* the caller passes the array to remove_watermark (process_image line 53,
\* process_video line 258), which copies and clamps it whether or not the
\* watermark is then detected
RemoveWatermarkWith(t) ==
    /\ th_pc[t] = "returned"
    /\ LET copied == [heap EXCEPT ![0] = heap[th_ret[t]]]
       IN  heap' = [copied EXCEPT ![ClipDestination(th_ret[t])] = ClipGrid(copied[0])]
    /\ th_pc' = [th_pc EXCEPT ![t] = "idle"]
    /\ UNCHANGED <<alpha_map_cache, loads, th_size, th_obj, th_ret>>

CacheNext ==
    \E t \in Threads :
        \/ CallGetAlphaMap(t)
             /\ UNCHANGED <<rtVars, frameVars, temporalVars, posVars, detVars, sessVars, plVars>>
        \/ TestCache(t)
             /\ UNCHANGED <<rtVars, frameVars, temporalVars, posVars, detVars, sessVars, plVars>>
        \/ LoadAlphaMap(t)
             /\ UNCHANGED <<rtVars, frameVars, temporalVars, posVars, detVars, sessVars, plVars>>
        \/ StoreAlphaMap(t)
             /\ UNCHANGED <<rtVars, frameVars, temporalVars, posVars, detVars, sessVars, plVars>>
        \/ ReturnAlphaMap(t)
             /\ UNCHANGED <<rtVars, frameVars, temporalVars, posVars, detVars, sessVars, plVars>>
        \/ RemoveWatermarkWith(t)
             /\ UNCHANGED <<rtVars, frameVars, temporalVars, posVars, detVars, sessVars, plVars>>

(***************************************************************************)
(* Claims about the alpha map cache (SpecCache).                           *)
(***************************************************************************)
\* C19: for any interleaving of get_alpha_map(size) calls from any number
\* of threads, the reference asset of a size is loaded and converted at
\* most once, and every call for that size returns the same cached array.
C19_LoadedOncePerSize ==
    /\ \A s \in Sizes : loads[s] <= 1
    /\ \A t1, t2 \in Threads :
          ( th_ret[t1] # 0 /\ th_ret[t2] # 0 /\ th_size[t1] = th_size[t2] )
          => th_ret[t1] = th_ret[t2]

\* two threads hold different arrays for the same size
C19_TwoArraysReached ==
    \E t1, t2 \in Threads :
        /\ th_size[t1] = th_size[t2]
        /\ th_ret[t1] # 0 /\ th_ret[t2] # 0
        /\ th_ret[t1] # th_ret[t2]

\* C20: after any sequence of get_alpha_map and remove_watermark calls the
\* grid the cache holds for a size equals the grid its load produced: the
\* clamp to 0.99 and the rest of remove_watermark leave it as it was.
C20_CacheNeverMutated ==
    /\ \A s \in DOMAIN alpha_map_cache :
          heap[alpha_map_cache[s]] = load_alpha_map(s)
    /\ \A t \in Threads :
          th_ret[t] # 0 => heap[th_ret[t]] = load_alpha_map(th_size[t])

\* remove_watermark has clamped a grid with cells of opacity 1.0: its local
\* array differs from the cached one, which still has those cells
C20_Witness ==
    \E t \in Threads :
        /\ th_pc[t] = "idle"
        /\ th_ret[t] # 0
        /\ th_size[t] \in DOMAIN alpha_map_cache
        /\ heap[0] = ClipGrid(load_alpha_map(th_size[t]))
        /\ heap[0] # heap[alpha_map_cache[th_size[t]]]
        /\ \E i \in DOMAIN heap[th_ret[t]] : heap[th_ret[t]][i] = ALPHA_DEN

(***************************************************************************)
(* process_video's frame loop (video.py lines 247-264): one                *)
(* TemporalProcessor, process_frame on each frame in turn, no reset and    *)
(* no try/except, so an exception raised by a call leaves the loop and     *)
(* the function.  Frames of a second size stand for a stream whose         *)
(* geometry changes.                                                       *)
(***************************************************************************)
MaxSessionFrames == 3

ShortFrame ==
    [h |-> TemporalH - 1, w |-> TemporalW,
     px |-> [rc \in Coords(TemporalH - 1, TemporalW) |-> Mid]]

\* <<original_frame, current_result>> of one call
SessionFramePairs ==
    {<<UniformFrame(Dark), GradientFrame>>, <<GradientFrame, GradientFrame>>,
     <<ShortFrame, ShortFrame>>}

\* a flow field of the frame's size with the same vector everywhere
ConstantFlow(frame, v) == [rc \in Coords(frame.h, frame.w) |-> v]
SessionFlows(frame) ==
    {ConstantFlow(frame, <<0, 0>>),
     ConstantFlow(frame, <<0, SCENE_CUT_THRESHOLD + 10>>)}

\* temporal_processor = TemporalProcessor(gemini_pos, veo_pos)
SessInit ==
    /\ TemporalInit
    /\ session_pc = "running"

\* result_array = temporal_processor.process_frame(original_frame, result_array)
SessionProcessFrame ==
    /\ session_pc = "running"
    /\ frame_count < MaxSessionFrames
    /\ \E pair \in SessionFramePairs :
       \E flow \in SessionFlows(pair[1]) :
          Called(pair[1], pair[2], flow)
    /\ session_pc' = IF tcall'.path = "cv2_error" THEN "failed" ELSE "running"

SessNext ==
    SessionProcessFrame
      /\ UNCHANGED <<rtVars, frameVars, posVars, detVars, cacheVars, plVars>>

(***************************************************************************)
(* Claims about a frame of another size (SpecSession).                     *)
(***************************************************************************)
\* the last call was made with a frame whose size differs from the stored one
MismatchCall ==
    /\ tcall.op = "process_frame"
    /\ tcall.pre.prev_gray # None
    /\ ShapeMismatch(tcall.pre.prev_gray, tcall.original)

MaxVideoFrames == 3

RawFrame(i) == [id |-> i, ops |-> << >>]

\* one entry of the trace: a component ran on frame `frame` (0: the whole
\* video); the temporal engine also records its instance and arguments
Ran(step, frame) ==
    [step |-> step, frame |-> frame, engine |-> 0,
     original |-> None, candidate |-> None]
RanEngine(frame, engine, original, candidate) ==
    [step |-> "TemporalConsistencyEngine", frame |-> frame, engine |-> engine,
     original |-> original, candidate |-> candidate]

\* a process_image that also runs the overlay remover
NextPcImageWithVeo(kind, at, more) ==
    IF kind = "image"
    THEN CASE at = "load" -> "position"
           [] at = "position" -> "alpha_map"
           [] at = "alpha_map" -> "remove_watermark"
           [] at = "remove_watermark" -> "remove_veo"
           [] at = "remove_veo" -> "save"
           [] at = "save" -> "done"
    ELSE CASE at = "position" -> "alpha_map"
           [] at = "alpha_map" -> "veo_position"
           [] at = "veo_position" -> "new_engine"
           [] at = "new_engine" -> "load"
           [] at = "load" -> "copy_original"
           [] at = "copy_original" -> "remove_watermark"
           [] at = "remove_watermark" -> "remove_veo"
           [] at = "remove_veo" -> "process_frame"
           [] at = "process_frame" -> "save"
           [] at = "save" -> IF more THEN "load" ELSE "done"
\* the statement that follows statement `at`: process_image lines 39-58,
\* process_video lines 216-269 (more: the frame loop has frames left)
NextPc(kind, at, more) ==
    IF kind = "image"
    THEN CASE at = "load" -> "position"
           [] at = "position" -> "alpha_map"
           [] at = "alpha_map" -> "remove_watermark"
           [] at = "remove_watermark" -> "save"
           [] at = "save" -> "done"
    ELSE CASE at = "position" -> "alpha_map"
           [] at = "alpha_map" -> "veo_position"
           [] at = "veo_position" -> "new_engine"
           [] at = "new_engine" -> "load"
           [] at = "load" -> "copy_original"
           [] at = "copy_original" -> "remove_watermark"
           [] at = "remove_watermark" -> "remove_veo"
           [] at = "remove_veo" -> "process_frame"
           [] at = "process_frame" -> "save"
           [] at = "save" -> IF more THEN "load" ELSE "done"

PlInit ==
    /\ pl_kind \in {"image", "video"}
    /\ pl_pc = IF pl_kind = "image" THEN "load" ELSE "position"
    /\ pl_n \in IF pl_kind = "image" THEN {1} ELSE 1..MaxVideoFrames
    /\ pl_i = 0
    /\ pl_frame = None
    /\ pl_original = None
    /\ pl_engines = 0
    /\ pl_trace = << >>

Goto(at) == pl_pc' = NextPc(pl_kind, at, pl_i < pl_n)

\* image.py 39-44 / video.py 251-252: the next frame is read into frame_array
PlLoad ==
    /\ pl_pc = "load"
    /\ pl_i' = pl_i + 1
    /\ pl_frame' = RawFrame(pl_i + 1)
    /\ Goto("load")
    /\ UNCHANGED <<pl_kind, pl_n, pl_original, pl_engines, pl_trace>>

\* image.py 48 / video.py 216: calculate_watermark_position
PlCalculatePosition ==
    /\ pl_pc = "position"
    /\ pl_trace' = Append(pl_trace, Ran("PositionCalculator", pl_i))
    /\ Goto("position")
    /\ UNCHANGED <<pl_kind, pl_n, pl_i, pl_frame, pl_original, pl_engines>>

\* image.py 51 / video.py 217: get_alpha_map(position.size)
PlGetAlphaMap ==
    /\ pl_pc = "alpha_map"
    /\ pl_trace' = Append(pl_trace, Ran("AlphaMapProvider", pl_i))
    /\ Goto("alpha_map")
    /\ UNCHANGED <<pl_kind, pl_n, pl_i, pl_frame, pl_original, pl_engines>>

\* video.py 220: calculate_veo_watermark_position
PlCalculateVeoPosition ==
    /\ pl_pc = "veo_position"
    /\ pl_trace' = Append(pl_trace, Ran("PositionCalculator", pl_i))
    /\ Goto("veo_position")
    /\ UNCHANGED <<pl_kind, pl_n, pl_i, pl_frame, pl_original, pl_engines>>

\* video.py 247: temporal_processor = TemporalProcessor(gemini_pos, veo_pos)
PlNewTemporalProcessor ==
    /\ pl_pc = "new_engine"
    /\ pl_engines' = pl_engines + 1
    /\ Goto("new_engine")
    /\ UNCHANGED <<pl_kind, pl_n, pl_i, pl_frame, pl_original, pl_trace>>

\* video.py 255: original_frame = frame_array.copy()
PlCopyOriginal ==
    /\ pl_pc = "copy_original"
    /\ pl_original' = pl_frame
    /\ Goto("copy_original")
    /\ UNCHANGED <<pl_kind, pl_n, pl_i, pl_frame, pl_engines, pl_trace>>

\* image.py 54 / video.py 258: remove_watermark, which returns at once for
\* a box outside the frame, else runs detect_gemini_watermark and, when the
\* watermark is present, the inverse blend
PlRemoveWatermark ==
    /\ pl_pc = "remove_watermark"
    /\ \E outcome \in {"out_of_bounds", "absent", "present"} :
         /\ pl_trace' =
              pl_trace \o
                CASE outcome = "out_of_bounds" -> << >>
                  [] outcome = "absent" -> <<Ran("PresenceDetector", pl_i)>>
                  [] outcome = "present" -> <<Ran("PresenceDetector", pl_i),
                                              Ran("AlphaBlendReverser", pl_i)>>
         /\ pl_frame' = IF outcome = "present"
                        THEN [pl_frame EXCEPT !.ops = Append(@, "AlphaBlendReverser")]
                        ELSE pl_frame
    /\ Goto("remove_watermark")
    /\ UNCHANGED <<pl_kind, pl_n, pl_i, pl_original, pl_engines>>

\* video.py 261: remove_veo_watermark(result_array, veo_pos)
PlRemoveVeoWatermark ==
    /\ pl_pc = "remove_veo"
    /\ pl_trace' = Append(pl_trace, Ran("VeoRemover", pl_i))
    /\ pl_frame' = [pl_frame EXCEPT !.ops = Append(@, "VeoRemover")]
    /\ Goto("remove_veo")
    /\ UNCHANGED <<pl_kind, pl_n, pl_i, pl_original, pl_engines>>

\* video.py 264: temporal_processor.process_frame(original_frame, result_array)
PlProcessFrame ==
    /\ pl_pc = "process_frame"
    /\ pl_trace' = Append(pl_trace,
                          RanEngine(pl_i, pl_engines, pl_original, pl_frame))
    /\ pl_frame' = [pl_frame EXCEPT !.ops = Append(@, "TemporalConsistencyEngine")]
    /\ Goto("process_frame")
    /\ UNCHANGED <<pl_kind, pl_n, pl_i, pl_original, pl_engines>>

\* image.py 57-58 / video.py 267-268: the result is written out
PlSave ==
    /\ pl_pc = "save"
    /\ Goto("save")
    /\ UNCHANGED <<pl_kind, pl_n, pl_i, pl_frame, pl_original, pl_engines, pl_trace>>

PlNext ==
    \/ PlLoad
         /\ UNCHANGED <<rtVars, frameVars, temporalVars, posVars, detVars, cacheVars, sessVars>>
    \/ PlCalculatePosition
         /\ UNCHANGED <<rtVars, frameVars, temporalVars, posVars, detVars, cacheVars, sessVars>>
    \/ PlGetAlphaMap
         /\ UNCHANGED <<rtVars, frameVars, temporalVars, posVars, detVars, cacheVars, sessVars>>
    \/ PlCalculateVeoPosition
         /\ UNCHANGED <<rtVars, frameVars, temporalVars, posVars, detVars, cacheVars, sessVars>>
    \/ PlNewTemporalProcessor
         /\ UNCHANGED <<rtVars, frameVars, temporalVars, posVars, detVars, cacheVars, sessVars>>
    \/ PlCopyOriginal
         /\ UNCHANGED <<rtVars, frameVars, temporalVars, posVars, detVars, cacheVars, sessVars>>
    \/ PlRemoveWatermark
         /\ UNCHANGED <<rtVars, frameVars, temporalVars, posVars, detVars, cacheVars, sessVars>>
    \/ PlRemoveVeoWatermark
         /\ UNCHANGED <<rtVars, frameVars, temporalVars, posVars, detVars, cacheVars, sessVars>>
    \/ PlProcessFrame
         /\ UNCHANGED <<rtVars, frameVars, temporalVars, posVars, detVars, cacheVars, sessVars>>
    \/ PlSave
         /\ UNCHANGED <<rtVars, frameVars, temporalVars, posVars, detVars, cacheVars, sessVars>>

\* what one call of remove_watermark can leave in the trace
RemovalRuns ==
    {<< >>, <<"PresenceDetector">>, <<"PresenceDetector", "AlphaBlendReverser">>}

RanAll(r, i) == [j \in 1..Len(r) |-> Ran(r[j], i)]

ReversedOps(r) == IF Len(r) = 2 THEN <<"AlphaBlendReverser">> ELSE << >>

\* tr is what the frame loop leaves for frames i..n: per frame the removal
\* run, the overlay remover, then engine 1 called with the raw frame and the
\* reconstructed frame
RECURSIVE VideoFrames(_, _, _)
VideoFrames(tr, i, n) ==
    IF i > n
    THEN tr = << >>
    ELSE \E r \in RemovalRuns :
           LET k == Len(r) IN
           /\ Len(tr) >= k + 2
           /\ SubSeq(tr, 1, k) = RanAll(r, i)
           /\ tr[k + 1] = Ran("VeoRemover", i)
           /\ tr[k + 2] = RanEngine(i, 1, RawFrame(i),
                                    [id |-> i, ops |-> ReversedOps(r) \o <<"VeoRemover">>])
           /\ VideoFrames(SubSeq(tr, k + 3, Len(tr)), i + 1, n)

\* the same, with the position and the opacity map computed for each frame
RECURSIVE VideoFramesAsStated(_, _, _)
VideoFramesAsStated(tr, i, n) ==
    IF i > n
    THEN tr = << >>
    ELSE \E r \in RemovalRuns :
           LET k == Len(r) + 2 IN
           /\ Len(tr) >= k + 2
           /\ SubSeq(tr, 1, k) =
                <<Ran("PositionCalculator", i), Ran("AlphaMapProvider", i)>> \o RanAll(r, i)
           /\ tr[k + 1] = Ran("VeoRemover", i)
           /\ tr[k + 2] = RanEngine(i, 1, RawFrame(i),
                                    [id |-> i, ops |-> ReversedOps(r) \o <<"VeoRemover">>])
           /\ VideoFramesAsStated(SubSeq(tr, k + 3, Len(tr)), i + 1, n)

\* C22 as stated: a finished image run went through PositionCalculator,
\* AlphaMapProvider, PresenceDetector, AlphaBlendReverser and then
\* VeoRemover; a finished video run went through the same steps on each
\* frame and handed the result and the raw frame to one shared engine
C22_PipelineAsStated ==
    pl_pc = "done" =>
      IF pl_kind = "image"
      THEN \E r \in RemovalRuns :
             pl_trace = <<Ran("PositionCalculator", 1), Ran("AlphaMapProvider", 1)>>
                          \o RanAll(r, 1) \o <<Ran("VeoRemover", 1)>>
      ELSE /\ VideoFramesAsStated(pl_trace, 1, pl_n)
           /\ pl_engines = 1

\* C22, amended: a finished image run went through PositionCalculator,
\* AlphaMapProvider, then PresenceDetector (when the box fits) and
\* AlphaBlendReverser (when the watermark is detected), and never through
\* VeoRemover or a temporal engine; a finished video run computed the
\* blend-type position, the opacity map and the overlay position once
\* before the loop, then ran on each frame in order PresenceDetector,
\* AlphaBlendReverser (under the same conditions) and VeoRemover, and passed
\* the result with the raw frame to the one engine of the video
C22_Pipeline ==
    pl_pc = "done" =>
      IF pl_kind = "image"
      THEN /\ \E r \in RemovalRuns :
                pl_trace = <<Ran("PositionCalculator", 1), Ran("AlphaMapProvider", 1)>>
                             \o RanAll(r, 1)
           /\ pl_engines = 0
      ELSE /\ Len(pl_trace) >= 3
           /\ SubSeq(pl_trace, 1, 3) =
                <<Ran("PositionCalculator", 0), Ran("AlphaMapProvider", 0),
                  Ran("PositionCalculator", 0)>>
           /\ VideoFrames(SubSeq(pl_trace, 4, Len(pl_trace)), 1, pl_n)
           /\ pl_engines = 1

C22_Witness ==
    /\ pl_pc = "done"
    /\ pl_kind = "video"
    /\ pl_n >= 2
    /\ \E j \in 1..Len(pl_trace) : pl_trace[j] = Ran("AlphaBlendReverser", 2)
    /\ \E j \in 1..Len(pl_trace) : pl_trace[j].step = "TemporalConsistencyEngine"
                                    /\ pl_trace[j].frame = pl_n

\* the sum of the brightness (channel sums) of the cells of rows
\* top..top + h - 1 and columns left..left + feather_size - 1
StripBrightness(img, top, left, h) ==
    SumFun([k \in 0..(h * feather_size - 1) |->
              Gray3(img.px[<<top + (k \div feather_size), left + (k % feather_size)>>])],
           h * feather_size)

\* the leftmost columns of the source crop and the columns just left of
\* the target region differ in mean brightness by more than 7
SeamMismatch(img, pos) ==
    Abs(StripBrightness(img, pos.y - pos.height, pos.x, pos.height)
          - StripBrightness(img, pos.y, pos.x - feather_size, pos.height))
      > 7 * 3 * pos.height * feather_size

\* C23: a static-path call on a box with at least 5 columns to its left
\* whose sampled strip does not match the columns left of the box returns
\* the buffer unchanged
C23_SeamGuardAborts ==
    (/\ call.op = "remove_veo_watermark"
     /\ call.path = "static"
     /\ call.pos.x >= feather_size
     /\ SeamMismatch(call.pre, call.pos))
      => image_array = call.pre

\* the guarded case with a matching strip is reached as well
C23_MatchingStripReached ==
    /\ call.op = "remove_veo_watermark"
    /\ call.path = "static"
    /\ call.pos.x >= feather_size
    /\ ~SeamMismatch(call.pre, call.pos)

\* _process_region lines 277-279: the region's own mean flow magnitude is
\* above the scene-cut threshold
LocalFlowExceeds(flow, pos) ==
    MeanMagnitudeExceeds(FlowRegion(flow, pos), pos.height, pos.width,
                         SCENE_CUT_THRESHOLD)

\* a region _process_region gets as far as measuring the local flow of
RegionTracked(frame, pos, prev_crop) ==
    prev_crop # None /\ ~OutOfBounds(frame, pos)

\* what C24 says of one smoothing call: `skipped` is left as in the
\* candidate when its local flow is too large, `other` is smoothed when its
\* own flow is not
SkipsOnly(skipped, skipped_prev, other, other_prev) ==
    ( /\ RegionTracked(tcall.candidate, skipped, skipped_prev)
      /\ LocalFlowExceeds(tcall.flow, skipped) )
    => /\ \A rc \in DOMAIN tcall.candidate.px :
             InBox(rc, skipped) => tcall.out.px[rc] = tcall.candidate.px[rc]
       /\ ( /\ RegionTracked(tcall.candidate, other, other_prev)
            /\ ~LocalFlowExceeds(tcall.flow, other) )
          => Crop(tcall.out, other).px =
                SmoothedRegion(tcall.candidate, tcall.flow, other, other_prev)

PerRegionSkip ==
    /\ SkipsOnly(gemini_pos, tcall.pre.prev_gemini_result,
                 veo_pos, tcall.pre.prev_veo_result)
    /\ SkipsOnly(veo_pos, tcall.pre.prev_veo_result,
                 gemini_pos, tcall.pre.prev_gemini_result)
    /\ IsBaselineOf(prev_gemini_result, tcall.out, gemini_pos)
    /\ IsBaselineOf(prev_veo_result, tcall.out, veo_pos)

\* C24: on a frame that is not a global scene cut, a tracked region whose
\* local mean flow exceeds the scene-cut threshold is left equal to the
\* candidate in every pixel, the other region is still smoothed if its own
\* local flow is below the threshold, and the stored crop of each region
\* equals that region of the returned frame
C24_PerRegionSkip ==
    ( tcall.op = "process_frame" /\ tcall.path = "smoothed" ) => PerRegionSkip

\* the same for sessions whose two boxes share no pixel
C24_PerRegionSkipOfDisjointBoxes ==
    ( /\ tcall.op = "process_frame"
      /\ tcall.path = "smoothed"
      /\ BoxesDisjoint(gemini_pos, veo_pos) )
    => PerRegionSkip

\* a call on disjoint boxes that skipped the blend-type region for its local
\* flow and smoothed the overlay-type region
C24_DisjointSkipReached ==
    /\ tcall.op = "process_frame"
    /\ tcall.path = "smoothed"
    /\ BoxesDisjoint(gemini_pos, veo_pos)
    /\ RegionTracked(tcall.candidate, gemini_pos, tcall.pre.prev_gemini_result)
    /\ LocalFlowExceeds(tcall.flow, gemini_pos)
    /\ RegionTracked(tcall.candidate, veo_pos, tcall.pre.prev_veo_result)
    /\ ~LocalFlowExceeds(tcall.flow, veo_pos)
    /\ tcall.out # tcall.candidate

\* the box lies inside a frame of the video's size
FitsVideo(pos) ==
    /\ pos.x >= 0 /\ pos.x + pos.width <= video_width
    /\ pos.y >= 0 /\ pos.y + pos.height <= video_height

\* two boxes with no pixel in common
SharesNoPixel(a, b) ==
    \/ a.x + a.width <= b.x
    \/ b.x + b.width <= a.x
    \/ a.y + a.height <= b.y
    \/ b.y + b.height <= a.y

\* C25: for every frame size at which both boxes fit inside the frame, the
\* blend-type box and the overlay-type box share no pixel
C25_BoxesShareNoPixel ==
    ( pos_pc = "veo_done" /\ FitsVideo(pos_gemini) /\ FitsVideo(pos_veo) )
    => SharesNoPixel(pos_gemini, pos_veo)

\* frame sizes where the two boxes are apart exist: 1920 x 1080
C25_ApartReached ==
    /\ pos_pc = "veo_done"
    /\ video_width = 1920 /\ video_height = 1080
    /\ FitsVideo(pos_gemini) /\ FitsVideo(pos_veo)
    /\ SharesNoPixel(pos_gemini, pos_veo)

\* one frame through remove_watermark and remove_veo_watermark
InitFrame == FrameInit /\ RtIdle /\ TemporalIdle /\ PosIdle /\ DetIdle /\ CacheIdle /\ SessIdle /\ PlIdle
SpecFrame == InitFrame /\ [][FrameNext]_vars

\* one video session of the temporal engine
InitTemporal == TemporalInit /\ RtIdle /\ FrameIdle /\ PosIdle /\ DetIdle /\ CacheIdle /\ SessIdle /\ PlIdle
SpecTemporal == InitTemporal /\ [][TemporalNext]_vars

\* one channel value through the forward blend and its inverse
InitRoundTrip == RtInit /\ FrameIdle /\ TemporalIdle /\ PosIdle /\ DetIdle /\ CacheIdle /\ SessIdle /\ PlIdle
SpecRoundTrip == InitRoundTrip /\ [][RtNext]_vars

\* the positions of one video
InitPosition == PosInit /\ RtIdle /\ FrameIdle /\ TemporalIdle /\ DetIdle /\ CacheIdle /\ SessIdle /\ PlIdle
SpecPosition == InitPosition /\ [][PosNext]_vars

\* one call of the presence detector
InitDetect == DetInit /\ RtIdle /\ FrameIdle /\ TemporalIdle /\ PosIdle /\ CacheIdle /\ SessIdle /\ PlIdle
SpecDetect == InitDetect /\ [][DetNext]_vars

\* threads sharing the alpha map cache
InitCache == CacheInit /\ RtIdle /\ FrameIdle /\ TemporalIdle /\ PosIdle /\ DetIdle /\ SessIdle /\ PlIdle
SpecCache == InitCache /\ [][CacheNext]_vars

\* the frame loop of one video around its temporal engine
InitSession == SessInit /\ RtIdle /\ FrameIdle /\ PosIdle /\ DetIdle /\ CacheIdle /\ PlIdle
SpecSession == InitSession /\ [][SessNext]_vars

\* one run of process_image or process_video
InitPipeline == PlInit /\ RtIdle /\ FrameIdle /\ TemporalIdle /\ PosIdle /\ DetIdle /\ CacheIdle /\ SessIdle
SpecPipeline == InitPipeline /\ [][PlNext]_vars

=============================================================================
